---- MODULE Spec2Model ----
(***************************************************************************)
(* MoneyRace backend: gas-sponsorship transaction relay, event            *)
(* aggregation, yield accrual and room directory.                          *)
(*                                                                         *)
(* JavaScript values are modelled as follows.  A string is a sequence of   *)
(* characters (base64 text: sextets 0..63; signature text: JSON tokens;    *)
(* messages: fragments).  An optional body field is a record with a        *)
(* `present` flag.  A number that the code divides by a scale is kept as   *)
(* an exact fixed-point value.                                             *)
(***************************************************************************)
EXTENDS Integers, Sequences, FiniteSets, TLC

VARIABLES
    req,            \* the request being answered (endpoint and body)
    resp,           \* the HTTP response sent for req
    relay,          \* outcome of the relay call made for req (return or throw)
    rpc,            \* ledger submit RPCs issued while answering req, in order
    signs,          \* sponsor keypair signing operations issued for req
    dir,            \* Room Directory: the rows of table "rooms"
    now,            \* wall clock (Date.now(), CURRENT_TIMESTAMP)
    objects,        \* ledger objects by object id
    nextObject,     \* next object id the ledger assigns
    events,         \* ledger event logs: PlayerJoined and DepositMade
    trace,          \* what the last request did outside the process, in program order
    strategies      \* AIService.strategies: the strategy table shared by all requests

vars == <<req, resp, relay, rpc, signs, dir, now, objects, nextObject, events, trace,
         strategies>>

world == <<dir, now, objects, nextObject, events, strategies>>

-----------------------------------------------------------------------------
(* Bounds *)

MaxDigest == 2
MaxRooms == 2
MaxTime == 2
MaxObjects == 4
MaxEvents == 3
MaxDefects == 2
MaxLog == 2

-----------------------------------------------------------------------------
(* Program constants *)

GAS_BUDGET == 100000000
MAX_MINT == 1000000000
USDC_DECIMALS == 1000000
PLAYER_JOINED == 50         \* EVENT_QUERY_LIMITS.PLAYER_JOINED
DEPOSIT_MADE == 100         \* EVENT_QUERY_LIMITS.DEPOSIT_MADE
MIN_ID_LENGTH == 10

-----------------------------------------------------------------------------
(* Values *)

NoText == <<>>

Absent == [present |-> FALSE, text |-> NoText]

Str(t) == [present |-> TRUE, text |-> t]

\* variant: only undefined is falsy
Truthy_Defined(f) == f.present

\* JavaScript truthiness of an optional string field: undefined and '' are falsy
Truthy(f) == f.present /\ f.text # NoText

\* error.message.includes(fragment)
Includes(msg, frag) == \E i \in 1..Len(msg) : msg[i] = frag

-----------------------------------------------------------------------------
(* Buffer.from(text, 'base64'): every 4 sextets give 3 bytes; a tail of 3   *)
(* sextets gives 2 bytes, a tail of 2 gives 1 byte, a tail of 1 is dropped. *)

RECURSIVE Base64Decode(_)
Base64Decode(s) ==
    IF Len(s) >= 4 THEN
        << s[1] * 4 + (s[2] \div 16),
           (s[2] % 16) * 16 + (s[3] \div 4),
           (s[3] % 4) * 64 + s[4] >> \o Base64Decode(SubSeq(s, 5, Len(s)))
    ELSE IF Len(s) = 3 THEN
        << s[1] * 4 + (s[2] \div 16), (s[2] % 16) * 16 + (s[3] \div 4) >>
    ELSE IF Len(s) = 2 THEN
        << s[1] * 4 + (s[2] \div 16) >>
    ELSE << >>

-----------------------------------------------------------------------------
(* JSON.parse on signature text.  The text is a sequence of JSON tokens:   *)
(* "[", "]", ",", a string literal (S_x), a number literal (N_x), or a     *)
(* bare word (RAW: base64 signature characters, not valid JSON).  Arrays   *)
(* of scalars are parsed; the inputs contain no nested array.              *)

StringTokens == {"S_sigA", "S_sigB"}
NumberTokens == {"N_7"}
ScalarTokens == StringTokens \cup NumberTokens

\* the JavaScript value of a scalar token
JSONValue(tok) ==
    [kind |-> IF tok \in StringTokens THEN "string" ELSE "number",
     text |-> <<tok>>,
     over |-> <<>>]

IsElementList(inner) ==
    /\ Len(inner) % 2 = 1
    /\ \A i \in 1..Len(inner) :
          IF i % 2 = 1 THEN inner[i] \in ScalarTokens ELSE inner[i] = ","

JSONParse(text) ==
    IF Len(text) = 1 /\ text[1] \in ScalarTokens THEN
        [ok |-> TRUE, isArray |-> FALSE, elems |-> <<>>]
    ELSE IF Len(text) >= 2 /\ text[1] = "[" /\ text[Len(text)] = "]" THEN
        LET inner == SubSeq(text, 2, Len(text) - 1) IN
        IF inner = <<>> THEN [ok |-> TRUE, isArray |-> TRUE, elems |-> <<>>]
        ELSE IF IsElementList(inner) THEN
            [ok |-> TRUE, isArray |-> TRUE,
             elems |-> [k \in 1..((Len(inner) + 1) \div 2) |-> JSONValue(inner[2 * k - 1])]]
        ELSE [ok |-> FALSE, isArray |-> FALSE, elems |-> <<>>]
    ELSE [ok |-> FALSE, isArray |-> FALSE, elems |-> <<>>]

-----------------------------------------------------------------------------
(* Sponsor Identity and ledger outcomes *)

\* a signature string passed through unchanged
StringValue(text) == [kind |-> "string", text |-> text, over |-> <<>>]

\* sponsorKeypair.signTransactionBlock(bytes).signature
SponsorSignature(bytes) == [kind |-> "sponsorSig", text |-> <<>>, over |-> bytes]

CauseMessages == { <<"network unreachable">>, <<"MoveAbort ", "COOLDOWN_NOT_PASSED">> }

NoThrow == [throws |-> FALSE, message |-> NoText]

SignOutcomes == {NoThrow} \cup {[throws |-> TRUE, message |-> m] : m \in {<<"invalid key">>}}

\* result.effects as returned by the ledger; effects and effects.status may be absent
EffectsShapes ==
    { [present |-> FALSE, statusPresent |-> FALSE, status |-> "none", created |-> <<>>],
      [present |-> TRUE,  statusPresent |-> FALSE, status |-> "none", created |-> <<>>],
      [present |-> TRUE,  statusPresent |-> TRUE,  status |-> "success", created |-> <<>>],
      [present |-> TRUE,  statusPresent |-> TRUE,  status |-> "failure", created |-> <<>>] }

\* what a submit RPC does: throws, or returns a result with effects
NoEffects == [present |-> FALSE, statusPresent |-> FALSE, status |-> "none", created |-> <<>>]

Digests == 1..MaxDigest

LedgerOutcomes ==
    {[throws |-> TRUE, message |-> m, digest |-> 0, effects |-> NoEffects] : m \in CauseMessages}
    \cup {[throws |-> FALSE, message |-> NoText, digest |-> d, effects |-> e] :
              d \in Digests, e \in EffectsShapes}

NoResult == [digest |-> 0, success |-> FALSE, effects |-> NoEffects]

\* variant: any transaction that carries effects counts as a success
StatusIsSuccess_EffectsPresent(effects) == effects.present

\* result.effects?.status?.status === 'success'
StatusIsSuccess(effects) ==
    effects.present /\ effects.statusPresent /\ effects.status = "success"

-----------------------------------------------------------------------------
(* Transaction Relay *)

\* one argument of a move call: tx.pure(number), tx.pure(text) or tx.object(id)
Pure(number, type) == [type |-> type, number |-> number, text |-> NoText]
PureText(text, type) == [type |-> type, number |-> 0, text |-> text]

\* new TransactionBlock() with one tx.moveCall({ target, arguments })
MoveCall(target, arguments) == [target |-> target, arguments |-> arguments, gasBudget |-> 0]

NoTx == MoveCall("none", <<>>)

\* one ledger submit RPC, with what the ledger answered
SubmitCall(method, bytes, tx, signature, out) ==
    [method |-> method, transactionBlock |-> bytes, tx |-> tx, signature |-> signature,
     throws |-> out.throws, message |-> out.message, issued |-> out.digest,
     effects |-> out.effects]

\* one signing operation of the sponsor keypair, with its outcome
SignCall(by, bytes, out) ==
    [by |-> by, over |-> bytes, throws |-> out.throws, message |-> out.message]

\* variant: a failed submission is retried once and the cause message is dropped
executeSponsoredTx_Retry(built, signOut, ledgerOut) ==
    LET tx == [built EXCEPT !.gasBudget = GAS_BUDGET]
        threw == signOut.throws \/ ledgerOut.throws
        call == SubmitCall("signAndExecuteTransactionBlock", <<>>, tx,
                           <<SponsorSignature(<<>>)>>, ledgerOut)
    IN  [mode |-> "legacy",
         signs |-> <<SignCall("sdk", <<>>, signOut)>>,
         rpc |-> IF signOut.throws THEN <<>>
                 ELSE IF ledgerOut.throws THEN <<call, call>> ELSE <<call>>,
         threw |-> threw,
         message |-> IF threw THEN <<"Transaction failed">> ELSE NoText,
         value |-> IF threw THEN NoResult
                   ELSE [digest |-> ledgerOut.digest,
                         success |-> StatusIsSuccess(ledgerOut.effects),
                         effects |-> ledgerOut.effects]]

\* RelayerService.executeSponsoredTx: the transaction is built by the backend, the
\* gas budget is fixed, and the SDK signs with the sponsor keypair and submits
executeSponsoredTx(built, signOut, ledgerOut) ==
    LET tx == [built EXCEPT !.gasBudget = GAS_BUDGET]
        threw == signOut.throws \/ ledgerOut.throws
        cause == IF signOut.throws THEN signOut.message ELSE ledgerOut.message
    IN  [mode |-> "legacy",
         signs |-> <<SignCall("sdk", <<>>, signOut)>>,
         rpc |-> IF signOut.throws THEN <<>>
                 ELSE <<SubmitCall("signAndExecuteTransactionBlock", <<>>, tx,
                                   <<SponsorSignature(<<>>)>>, ledgerOut)>>,
         threw |-> threw,
         message |-> IF threw THEN <<"Transaction failed: ">> \o cause ELSE NoText,
         value |-> IF threw THEN NoResult
                   ELSE [digest |-> ledgerOut.digest,
                         success |-> StatusIsSuccess(ledgerOut.effects),
                         effects |-> ledgerOut.effects]]

\* variant: no duplicate-signing guard, the sponsor signature is always appended
executeSponsoredTxWithUserSignature_AlwaysCosign(txBytes, userSignature, signOut, ledgerOut) ==
    LET txBytesArray == Base64Decode(txBytes)
        parsed == JSONParse(userSignature)
        isMultiSig == parsed.ok /\ parsed.isArray
        finalSignature ==
            IF isMultiSig THEN Append(parsed.elems, SponsorSignature(txBytesArray))
            ELSE <<StringValue(userSignature), SponsorSignature(txBytesArray)>>
        threw == signOut.throws \/ ledgerOut.throws
        cause == IF signOut.throws THEN signOut.message ELSE ledgerOut.message
    IN  [mode |-> "cosigned",
         signs |-> <<SignCall("relay", txBytesArray, signOut)>>,
         rpc |-> IF signOut.throws THEN <<>>
                 ELSE <<SubmitCall("executeTransactionBlock", txBytesArray, NoTx,
                                   finalSignature, ledgerOut)>>,
         threw |-> threw,
         message |-> IF threw THEN <<"Sponsored transaction failed: ">> \o cause ELSE NoText,
         value |-> IF threw THEN NoResult
                   ELSE [digest |-> ledgerOut.digest,
                         success |-> StatusIsSuccess(ledgerOut.effects),
                         effects |-> ledgerOut.effects]]

\* variant: the sponsor signs the base64 text instead of the decoded bytes and
\* its signature is put first
executeSponsoredTxWithUserSignature_SignsText(txBytes, userSignature, signOut, ledgerOut) ==
    LET txBytesArray == Base64Decode(txBytes)
        parsed == JSONParse(userSignature)
        isMultiSig == parsed.ok /\ parsed.isArray
        signThrew == ~isMultiSig /\ signOut.throws
        finalSignature ==
            IF isMultiSig THEN parsed.elems
            ELSE <<SponsorSignature(txBytes), StringValue(userSignature)>>
        threw == signThrew \/ ledgerOut.throws
        cause == IF signThrew THEN signOut.message ELSE ledgerOut.message
    IN  [mode |-> "cosigned",
         signs |-> IF isMultiSig THEN <<>> ELSE <<SignCall("relay", txBytes, signOut)>>,
         rpc |-> IF signThrew THEN <<>>
                 ELSE <<SubmitCall("executeTransactionBlock", txBytesArray, NoTx,
                                   finalSignature, ledgerOut)>>,
         threw |-> threw,
         message |-> IF threw THEN <<"Sponsored transaction failed: ">> \o cause ELSE NoText,
         value |-> IF threw THEN NoResult
                   ELSE [digest |-> ledgerOut.digest,
                         success |-> StatusIsSuccess(ledgerOut.effects),
                         effects |-> ledgerOut.effects]]

\* RelayerService.executeSponsoredTxWithUserSignature: the client built and signed
\* the bytes; the sponsor co-signs unless the signature already parses as a list
executeSponsoredTxWithUserSignature(txBytes, userSignature, signOut, ledgerOut) ==
    LET txBytesArray == Base64Decode(txBytes)
        parsed == JSONParse(userSignature)
        isMultiSig == parsed.ok /\ parsed.isArray
        signThrew == ~isMultiSig /\ signOut.throws
        finalSignature ==
            IF isMultiSig THEN parsed.elems
            ELSE <<StringValue(userSignature), SponsorSignature(txBytesArray)>>
        threw == signThrew \/ ledgerOut.throws
        cause == IF signThrew THEN signOut.message ELSE ledgerOut.message
    IN  [mode |-> "cosigned",
         signs |-> IF isMultiSig THEN <<>> ELSE <<SignCall("relay", txBytesArray, signOut)>>,
         rpc |-> IF signThrew THEN <<>>
                 ELSE <<SubmitCall("executeTransactionBlock", txBytesArray, NoTx,
                                   finalSignature, ledgerOut)>>,
         threw |-> threw,
         message |-> IF threw THEN <<"Sponsored transaction failed: ">> \o cause ELSE NoText,
         value |-> IF threw THEN NoResult
                   ELSE [digest |-> ledgerOut.digest,
                         success |-> StatusIsSuccess(ledgerOut.effects),
                         effects |-> ledgerOut.effects]]

\* RelayerService.mintUSDC
mintUSDC(recipient, amount, signOut, ledgerOut) ==
    executeSponsoredTx(MoveCall("usdc::mint_to",
                                <<PureText(recipient, "address"), Pure(amount, "u64")>>),
                       signOut, ledgerOut)

NoRelay ==
    [mode |-> "none", signs |-> <<>>, rpc |-> <<>>, threw |-> FALSE, message |-> NoText,
     value |-> NoResult]

-----------------------------------------------------------------------------
(* HTTP responses *)

BoolText(b) == IF b THEN "true" ELSE "false"

\* res.status(code).json({ error })
ErrorJson(code, message) ==
    [status |-> code, success |-> "absent", digest |-> 0, error |-> message]

\* res.json({ success: result.success, digest: result.digest, ... })
ResultJson(result) ==
    [status |-> 200, success |-> BoolText(result.success), digest |-> result.digest,
     error |-> NoText]

\* utils/response sendSuccess: { success: true, data }
sendSuccess(data) ==
    [status |-> 200, success |-> "true", digest |-> data.digest, error |-> NoText]

\* utils/response sendError: { success: false, error }
sendError(message, statusCode) ==
    [status |-> statusCode, success |-> "false", digest |-> 0, error |-> message]

\* utils/response sendValidationError
sendValidationError(message) == sendError(message, 400)

\* error.message || fallback
MessageOr(message, fallback) == IF message # NoText THEN message ELSE fallback

NoResp == [status |-> 0, success |-> "absent", digest |-> 0, error |-> NoText]

-----------------------------------------------------------------------------
(* Request inputs of the transaction endpoints *)

\* base64 text of the client-built transaction bytes
TxBytesInputs == { Absent, Str(<<>>), Str(<<1, 2, 3, 4>>), Str(<<16, 0, 5>>) }

\* signature text sent by the client
SignatureInputs ==
    { Absent,
      Str(<<"RAW">>),
      Str(<<"S_sigA">>),
      Str(<<"[", "S_sigA">>),
      Str(<<"[", "]">>),
      Str(<<"[", "N_7", "]">>),
      Str(<<"[", "S_sigA", ",", "S_sigB", "]">>) }

NoAmount == [present |-> FALSE, n |-> 0]

MintAmounts ==
    {NoAmount} \cup {[present |-> TRUE, n |-> n] : n \in {-1, 0, 1, MAX_MINT, MAX_MINT + 1}}

Recipients == { Absent, Str(<<"0xA11CE">>) }

Request(ep, txBytes, userSignature) ==
    [ep |-> ep, txBytes |-> txBytes, userSignature |-> userSignature,
     recipient |-> Absent, amount |-> NoAmount]

\* one operation a handler performs outside the process: a console line, a sponsor
\* signature, a ledger RPC or a directory write, with the texts it carries
Did(op, target, texts, ok) == [op |-> op, target |-> target, texts |-> texts, ok |-> ok]

\* the texts a transaction carries to the ledger
TextsOf(tx) == {tx.arguments[i].text : i \in 1..Len(tx.arguments)} \ {NoText}

\* the operations of one relay call: the sponsor signatures, then the submissions
RelayTrace(call) ==
    [i \in 1..Len(call.signs) |-> Did("sign", call.signs[i].by, {}, ~call.signs[i].throws)]
    \o [i \in 1..Len(call.rpc) |->
            Did("submit", call.rpc[i].tx.target, TextsOf(call.rpc[i].tx), ~call.rpc[i].throws)]

\* the handler returned before making a relay call
Answer(r, response) ==
    /\ req' = r
    /\ resp' = response
    /\ relay' = NoRelay
    /\ rpc' = <<>>
    /\ signs' = <<>>
    /\ trace' = <<>>

\* the handler made one relay call with outcome call and then answered
AnswerAfterRelay(r, call, response) ==
    /\ req' = r
    /\ resp' = response
    /\ relay' = [mode |-> call.mode, signs |-> <<>>, rpc |-> <<>>, threw |-> call.threw,
                 message |-> call.message, value |-> call.value]
    /\ rpc' = call.rpc
    /\ signs' = call.signs
    /\ trace' = RelayTrace(call)

\* the handler made one relay call among the operations ops and then answered
AnswerAfterOps(r, call, response, ops) ==
    /\ req' = r
    /\ resp' = response
    /\ relay' = [mode |-> call.mode, signs |-> <<>>, rpc |-> <<>>, threw |-> call.threw,
                 message |-> call.message, value |-> call.value]
    /\ rpc' = call.rpc
    /\ signs' = call.signs
    /\ trace' = ops

-----------------------------------------------------------------------------
(* Room Directory: table "rooms" behind RoomStoreService *)

NullId == 0             \* SQL NULL / JavaScript null in an id column
UndefinedId == -1       \* JavaScript undefined

\* keccak_256(new TextEncoder().encode(password)) as hex: a digest that is equal
\* for equal passwords only
Keccak(password) == [isNull |-> FALSE, of |-> password]

NullHash == [isNull |-> TRUE, of |-> <<>>]

NoData ==
    [roomId |-> NullId, name |-> NoText, vaultId |-> UndefinedId, creatorAddress |-> "none",
     totalPeriods |-> 0, depositAmount |-> 0, strategyId |-> 0, isPrivate |-> FALSE,
     passwordHash |-> NullHash, startTimeMs |-> 0, periodLengthMs |-> 0, createdAt |-> 0,
     transactionDigest |-> 0]

RowsOf(d, roomId) == {row \in d : row.roomId = roomId}

\* variant: the upsert always inserts a new row
addRoom_AlwaysInsert(d, data, rowId, time) ==
    d \cup {[id |-> rowId, roomId |-> data.roomId, name |-> data.name,
              vaultId |-> IF data.vaultId = UndefinedId THEN NullId ELSE data.vaultId,
              creatorAddress |-> data.creatorAddress, totalPeriods |-> data.totalPeriods,
              depositAmount |-> data.depositAmount, strategyId |-> data.strategyId,
              isPrivate |-> data.isPrivate, passwordHash |-> data.passwordHash,
              startTimeMs |-> data.startTimeMs, periodLengthMs |-> data.periodLengthMs,
              transactionDigest |-> data.transactionDigest,
              accumulatedYield |-> 0, lastYieldUpdateMs |-> 0,
              createdAt |-> time]}

\* the upsert written to reset the yield checkpoint of the row it updates
addRoom_ResetsCheckpoint(d, data, rowId, time) ==
    IF RowsOf(d, data.roomId) # {} THEN
        {IF row.roomId # data.roomId THEN row
         ELSE [row EXCEPT
                 !.name = data.name,
                 !.vaultId = IF data.vaultId = UndefinedId THEN row.vaultId ELSE data.vaultId,
                 !.creatorAddress = data.creatorAddress,
                 !.totalPeriods = data.totalPeriods,
                 !.depositAmount = data.depositAmount,
                 !.strategyId = data.strategyId,
                 !.isPrivate = data.isPrivate,
                 !.passwordHash = data.passwordHash,
                 !.startTimeMs = data.startTimeMs,
                 !.periodLengthMs = data.periodLengthMs,
                 !.transactionDigest = data.transactionDigest,
                 !.accumulatedYield = 0,
                 !.lastYieldUpdateMs = 0] : row \in d}
    ELSE
        d \cup {[id |-> rowId, roomId |-> data.roomId, name |-> data.name,
                  vaultId |-> IF data.vaultId = UndefinedId THEN NullId ELSE data.vaultId,
                  creatorAddress |-> data.creatorAddress, totalPeriods |-> data.totalPeriods,
                  depositAmount |-> data.depositAmount, strategyId |-> data.strategyId,
                  isPrivate |-> data.isPrivate, passwordHash |-> data.passwordHash,
                  startTimeMs |-> data.startTimeMs, periodLengthMs |-> data.periodLengthMs,
                  transactionDigest |-> data.transactionDigest,
                  accumulatedYield |-> 0, lastYieldUpdateMs |-> 0,
                  createdAt |-> time]}

\* variant: the transaction digest is not written
addRoom_NoDigest(d, data, rowId, time) ==
    addRoom_AlwaysInsert({row \in d : row.roomId # data.roomId},
                         [data EXCEPT !.transactionDigest = 0], rowId, time)

\* variant: the vault id is not written
addRoom_DropsVault(d, data, rowId, time) ==
    addRoom_AlwaysInsert({row \in d : row.roomId # data.roomId},
                         [data EXCEPT !.vaultId = UndefinedId], rowId, time)

\* RoomStoreService.addRoom: prisma upsert keyed by roomId.  An undefined field of
\* the update is left as it is; a created row takes the column defaults
addRoom(d, data, rowId, time) ==
    IF RowsOf(d, data.roomId) # {} THEN
        {IF row.roomId # data.roomId THEN row
         ELSE [row EXCEPT
                 !.name = data.name,
                 !.vaultId = IF data.vaultId = UndefinedId THEN row.vaultId ELSE data.vaultId,
                 !.creatorAddress = data.creatorAddress,
                 !.totalPeriods = data.totalPeriods,
                 !.depositAmount = data.depositAmount,
                 !.strategyId = data.strategyId,
                 !.isPrivate = data.isPrivate,
                 !.passwordHash = data.passwordHash,
                 !.startTimeMs = data.startTimeMs,
                 !.periodLengthMs = data.periodLengthMs,
                 !.transactionDigest = data.transactionDigest] : row \in d}
    ELSE
        d \cup {[id |-> rowId, roomId |-> data.roomId, name |-> data.name,
                  vaultId |-> IF data.vaultId = UndefinedId THEN NullId ELSE data.vaultId,
                  creatorAddress |-> data.creatorAddress, totalPeriods |-> data.totalPeriods,
                  depositAmount |-> data.depositAmount, strategyId |-> data.strategyId,
                  isPrivate |-> data.isPrivate, passwordHash |-> data.passwordHash,
                  startTimeMs |-> data.startTimeMs, periodLengthMs |-> data.periodLengthMs,
                  transactionDigest |-> data.transactionDigest,
                  accumulatedYield |-> 0, lastYieldUpdateMs |-> 0,
                  createdAt |-> time]}

\* RoomStoreService.addRoom of room-store.service.ts: the earlier store, which does
\* not write name, isPrivate and passwordHash
addRoomLegacy(d, data, rowId, time) ==
    IF RowsOf(d, data.roomId) # {} THEN
        {IF row.roomId # data.roomId THEN row
         ELSE [row EXCEPT
                 !.vaultId = IF data.vaultId = UndefinedId THEN row.vaultId ELSE data.vaultId,
                 !.creatorAddress = data.creatorAddress,
                 !.totalPeriods = data.totalPeriods,
                 !.depositAmount = data.depositAmount,
                 !.strategyId = data.strategyId,
                 !.startTimeMs = data.startTimeMs,
                 !.periodLengthMs = data.periodLengthMs,
                 !.transactionDigest = data.transactionDigest] : row \in d}
    ELSE
        d \cup {[id |-> rowId, roomId |-> data.roomId, name |-> NoText,
                  vaultId |-> IF data.vaultId = UndefinedId THEN NullId ELSE data.vaultId,
                  creatorAddress |-> data.creatorAddress, totalPeriods |-> data.totalPeriods,
                  depositAmount |-> data.depositAmount, strategyId |-> data.strategyId,
                  isPrivate |-> FALSE, passwordHash |-> NullHash,
                  startTimeMs |-> data.startTimeMs, periodLengthMs |-> data.periodLengthMs,
                  transactionDigest |-> data.transactionDigest,
                  accumulatedYield |-> 0, lastYieldUpdateMs |-> 0,
                  createdAt |-> time]}

\* the RoomData a store read returns for a row
ToRoomData(row) ==
    [found |-> TRUE, roomId |-> row.roomId, vaultId |-> row.vaultId,
     creatorAddress |-> row.creatorAddress, totalPeriods |-> row.totalPeriods,
     depositAmount |-> row.depositAmount, strategyId |-> row.strategyId,
     isPrivate |-> row.isPrivate, startTimeMs |-> row.startTimeMs,
     periodLengthMs |-> row.periodLengthMs, createdAt |-> row.createdAt,
     transactionDigest |-> row.transactionDigest]

NotFound ==
    [found |-> FALSE, roomId |-> NullId, vaultId |-> NullId, creatorAddress |-> "none",
     totalPeriods |-> 0, depositAmount |-> 0, strategyId |-> 0, isPrivate |-> FALSE,
     startTimeMs |-> 0, periodLengthMs |-> 0, createdAt |-> 0, transactionDigest |-> 0]

\* RoomStoreService.getRoom: findUnique by roomId.  The result is a set: the one
\* answer, or every answer the store may give if roomId were not unique
getRoom(d, roomId) ==
    IF RowsOf(d, roomId) = {} THEN {NotFound}
    ELSE {ToRoomData(row) : row \in RowsOf(d, roomId)}

\* findMany(orderBy createdAt desc): every order of the rows compatible with the
\* sort key (rows of equal createdAt come in an order the store chooses)
OrderedDesc(rows) ==
    {s \in [1..Cardinality(rows) -> rows] :
        /\ \A i, j \in 1..Cardinality(rows) : i # j => s[i] # s[j]
        /\ \A i, j \in 1..Cardinality(rows) : i < j => s[i].createdAt >= s[j].createdAt}

\* RoomStoreService.getAllRooms
getAllRooms(d) ==
    {[i \in 1..Len(s) |-> ToRoomData(s[i])] : s \in OrderedDesc(d)}

\* RoomStoreService.getRoomsByCreator
getRoomsByCreator(d, creatorAddress) ==
    {[i \in 1..Len(s) |-> ToRoomData(s[i])] :
        s \in OrderedDesc({row \in d : row.creatorAddress = creatorAddress})}

\* RoomStoreService.getRoomCount
getRoomCount(d) == Cardinality(d)

\* RoomStoreService.hasRoom
hasRoom(d, roomId) == Cardinality(RowsOf(d, roomId)) > 0


\* RoomStoreService.findByPasswordHash: findFirst where passwordHash equals; the
\* store may return any matching row.  A NULL column matches nothing
findByPasswordHash(d, passwordHash) ==
    {row \in d : ~row.passwordHash.isNull /\ row.passwordHash = passwordHash}

-----------------------------------------------------------------------------
(* The directory used through its service interface *)

Creators == {"(gasless)", "0xcreator"}

\* the primary key the store generates for a new row
NewRowId(d, roomId) == roomId * 10 + Cardinality(RowsOf(d, roomId))

\* RoomData values a caller of the store passes
RoomDataInputs ==
    {[roomId |-> r, name |-> NoText, vaultId |-> f.vaultId, creatorAddress |-> f.creator,
      totalPeriods |-> 4, depositAmount |-> 1000000, strategyId |-> 1,
      isPrivate |-> f.isPrivate,
      passwordHash |-> IF f.isPrivate THEN Keccak(<<"A", "b">>) ELSE NullHash,
      startTimeMs |-> 2, periodLengthMs |-> 7, createdAt |-> 0, transactionDigest |-> r] :
        r \in 1..MaxRooms,
        f \in {[vaultId |-> UndefinedId, creator |-> "(gasless)", isPrivate |-> FALSE],
                [vaultId |-> 10, creator |-> "(gasless)", isPrivate |-> TRUE],
                [vaultId |-> 11, creator |-> "0xcreator", isPrivate |-> FALSE]}}

StoreAddRoom ==
    \E data \in RoomDataInputs :
        /\ Cardinality(dir) <= MaxRooms
        /\ dir' = addRoom(dir, data, NewRowId(dir, data.roomId), now)
        /\ UNCHANGED <<req, resp, relay, rpc, signs, trace, now, objects, nextObject, events, strategies>>

StoreAddRoomLegacy ==
    \E data \in RoomDataInputs :
        /\ Cardinality(dir) <= MaxRooms
        /\ dir' = addRoomLegacy(dir, data, NewRowId(dir, data.roomId), now)
        /\ UNCHANGED <<req, resp, relay, rpc, signs, trace, now, objects, nextObject, events, strategies>>

\* time passes
Tick ==
    /\ now < MaxTime
    /\ now' = now + 1
    /\ UNCHANGED <<req, resp, relay, rpc, signs, trace, dir, objects, nextObject, events, strategies>>

-----------------------------------------------------------------------------
(* Transaction endpoints *)

\* POST /room/join, /room/deposit, /room/claim and /room/execute-sponsored share
\* one handler body
RoomSponsored(ep, fallback, txBytes, userSignature, signOut, ledgerOut) ==
    LET r == Request(ep, txBytes, userSignature) IN
    IF ~Truthy(txBytes) \/ ~Truthy(userSignature) THEN
        Answer(r, ErrorJson(400, <<"Missing txBytes or userSignature">>))
    ELSE
        LET call == executeSponsoredTxWithUserSignature(
                        txBytes.text, userSignature.text, signOut, ledgerOut)
        IN  AnswerAfterRelay(r, call,
                IF call.threw THEN ErrorJson(500, MessageOr(call.message, fallback))
                ELSE ResultJson(call.value))

\* the handler of an endpoint, for every request and every answer of its environment
RoomSponsoredHandler(ep, fallback) ==
    \E txBytes \in TxBytesInputs, userSignature \in SignatureInputs,
       signOut \in SignOutcomes, ledgerOut \in LedgerOutcomes :
        RoomSponsored(ep, fallback, txBytes, userSignature, signOut, ledgerOut)

\* the endpoints of the room router, with the message each answers when the relay
\* throws without one
RoomSponsoredEndpoints ==
    [ep \in {"room/execute-sponsored", "room/join", "room/deposit", "room/claim"} |->
        CASE ep = "room/execute-sponsored" -> <<"Failed to execute sponsored transaction">>
          [] ep = "room/join" -> <<"Failed to join room">>
          [] ep = "room/deposit" -> <<"Failed to deposit">>
          [] ep = "room/claim" -> <<"Failed to claim">>]

PostRoomExecuteSponsored ==
    RoomSponsoredHandler("room/execute-sponsored",
                         RoomSponsoredEndpoints["room/execute-sponsored"])

PostRoomJoin == RoomSponsoredHandler("room/join", RoomSponsoredEndpoints["room/join"])

PostRoomDeposit == RoomSponsoredHandler("room/deposit", RoomSponsoredEndpoints["room/deposit"])

PostRoomClaim == RoomSponsoredHandler("room/claim", RoomSponsoredEndpoints["room/claim"])

\* POST /sponsored/execute answering with res.json
SponsoredExecute(txBytes, userSignature, signOut, ledgerOut) ==
    LET r == Request("sponsored/execute", txBytes, userSignature) IN
    IF ~Truthy(txBytes) THEN
        Answer(r, ErrorJson(400, <<"Transaction bytes required">>))
    ELSE IF ~Truthy(userSignature) THEN
        Answer(r, ErrorJson(400, <<"User signature required">>))
    ELSE
        LET call == executeSponsoredTxWithUserSignature(
                        txBytes.text, userSignature.text, signOut, ledgerOut)
        IN  AnswerAfterRelay(r, call,
                IF call.threw
                THEN ErrorJson(500, MessageOr(call.message,
                                   <<"Failed to execute sponsored transaction">>))
                ELSE ResultJson(call.value))

PostSponsoredExecute ==
    \E txBytes \in TxBytesInputs, userSignature \in SignatureInputs,
       signOut \in SignOutcomes, ledgerOut \in LedgerOutcomes :
        SponsoredExecute(txBytes, userSignature, signOut, ledgerOut)

\* POST /sponsored/execute answering with the utils/response helpers
SponsoredExecuteUtils(txBytes, userSignature, signOut, ledgerOut) ==
    LET r == Request("sponsored/execute#utils", txBytes, userSignature) IN
    IF ~Truthy(txBytes) THEN
        Answer(r, sendValidationError(<<"Transaction bytes required">>))
    ELSE IF ~Truthy(userSignature) THEN
        Answer(r, sendValidationError(<<"User signature required">>))
    ELSE
        LET call == executeSponsoredTxWithUserSignature(
                        txBytes.text, userSignature.text, signOut, ledgerOut)
        IN  AnswerAfterRelay(r, call,
                IF call.threw
                THEN sendError(MessageOr(call.message,
                                   <<"Failed to execute sponsored transaction">>), 500)
                ELSE sendSuccess(call.value))

PostSponsoredExecuteUtils ==
    \E txBytes \in TxBytesInputs, userSignature \in SignatureInputs,
       signOut \in SignOutcomes, ledgerOut \in LedgerOutcomes :
        SponsoredExecuteUtils(txBytes, userSignature, signOut, ledgerOut)

\* POST /usdc/mint
UsdcMint(recipient, amount, signOut, ledgerOut) ==
    LET r == [ep |-> "usdc/mint", txBytes |-> Absent, userSignature |-> Absent,
              recipient |-> recipient, amount |-> amount]
    IN
    IF ~Truthy(recipient) THEN
        Answer(r, ErrorJson(400, <<"Recipient address required">>))
    ELSE IF ~amount.present \/ amount.n = 0 \/ amount.n <= 0 THEN
        Answer(r, ErrorJson(400, <<"Invalid amount">>))
    ELSE IF amount.n > MAX_MINT THEN
        Answer(r, ErrorJson(400, <<"Amount too large">>))
    ELSE
        LET call == mintUSDC(recipient.text, amount.n, signOut, ledgerOut) IN
        AnswerAfterRelay(r, call,
            IF call.threw THEN
                IF Includes(call.message, "COOLDOWN_NOT_PASSED")
                THEN ErrorJson(429, <<"Cooldown period not passed">>)
                ELSE ErrorJson(500, MessageOr(call.message, <<"Failed to mint USDC">>))
            ELSE ResultJson(call.value))

PostUsdcMint ==
    \E recipient \in Recipients, amount \in MintAmounts,
       signOut \in SignOutcomes, ledgerOut \in LedgerOutcomes :
        UsdcMint(recipient, amount, signOut, ledgerOut)

-----------------------------------------------------------------------------
(* POST /room/create *)

\* the alphabet of generated passwords (no I, O, l, 0, 1)
Chars ==
    << "A", "B", "C", "D", "E", "F", "G", "H", "J", "K", "L", "M", "N", "P", "Q", "R",
       "S", "T", "U", "V", "W", "X", "Y", "Z", "a", "b", "c", "d", "e", "f", "g", "h",
       "i", "j", "k", "m", "n", "o", "p", "q", "r", "s", "t", "u", "v", "w", "x", "y",
       "z", "2", "3", "4", "5", "6", "7", "8", "9" >>

PASSWORD_LENGTH == 8

\* the values Math.floor(Math.random() * chars.length) takes in one generation
RandomDraws ==
    { [i \in 1..PASSWORD_LENGTH |-> 0],
      [i \in 1..PASSWORD_LENGTH |-> IF i = 1 THEN 56 ELSE 25] }

\* generatedPassword: one character of chars per draw
GeneratePassword(draw) == [i \in 1..PASSWORD_LENGTH |-> Chars[draw[i] + 1]]

RoomType == "0xpkg::money_race_v2::Room"
VaultType == "0xpkg::money_race_v2::Vault"
OtherType == "0x2::coin::Coin"
NoType == ""

\* objectType.includes('::Room'), objectType.includes('::Vault')
IncludesRoom(type) == type = RoomType
IncludesVault(type) == type = VaultType


\* request bodies: a number 0 stands for a missing or falsy field, strategyId -1 for
\* undefined
ValidBody(private) ==
    [totalPeriods |-> 4, depositAmount |-> 1000000, strategyId |-> 1, startTimeMs |-> 2,
     periodLengthMs |-> 7, isPrivate |-> private]

InvalidBodies ==
    {[ValidBody(TRUE) EXCEPT !.totalPeriods = 0], [ValidBody(FALSE) EXCEPT !.strategyId = -1]}

\* the objects a successful create_room makes, in the order effects.created lists
\* them, whether effects carry their type, and how the fallback getObject answers
Scenario(k, e, f) == [kinds |-> k, typesInEffects |-> e, fetch |-> f]

CreateScenarios ==
    {Scenario(<<RoomType, VaultType>>, TRUE, "ok"),
     Scenario(<<VaultType, RoomType>>, TRUE, "ok"),
     Scenario(<<RoomType>>, TRUE, "ok"),
     Scenario(<<RoomType, OtherType>>, TRUE, "ok"),
     Scenario(<<VaultType, RoomType>>, FALSE, "ok"),
     Scenario(<<RoomType, VaultType>>, FALSE, "nodata"),
     Scenario(<<RoomType, VaultType>>, FALSE, "throw")}

\* effects.created of a create_room transaction that made the objects of scenario sc
CreatedList(sc, firstId) ==
    [i \in 1..Len(sc.kinds) |->
        [objectId |-> firstId + i - 1,
         objectType |-> IF sc.typesInEffects THEN sc.kinds[i] ELSE NoType]]

Last(S) == CHOOSE i \in S : \A j \in S : j <= i

\* first loop over effects.created: classify by the embedded objectType
RoomFromEffects(created) ==
    LET hits == {i \in 1..Len(created) : IncludesRoom(created[i].objectType)}
    IN  IF hits = {} THEN UndefinedId ELSE created[Last(hits)].objectId

VaultFromEffects(created) ==
    LET hits == {i \in 1..Len(created) :
                    ~IncludesRoom(created[i].objectType)
                    /\ IncludesVault(created[i].objectType)}
    IN  IF hits = {} THEN UndefinedId ELSE created[Last(hits)].objectId

\* the type the fallback learns for a created object: obj.data?.type || ''
FetchedType(objs, objectId, fetch) ==
    IF fetch = "ok" /\ objectId \in DOMAIN objs THEN objs[objectId].type ELSE NoType

\* second loop (only if an id is still missing): classify by the fetched type; a
\* failing getObject is skipped
RoomFromFetch(created, objs, fetch, before) ==
    LET hits == {i \in 1..Len(created) :
                    IncludesRoom(FetchedType(objs, created[i].objectId, fetch))}
    IN  IF hits = {} THEN before ELSE created[Last(hits)].objectId

VaultFromFetch(created, objs, fetch, before) ==
    LET hits == {i \in 1..Len(created) :
                    /\ ~IncludesRoom(FetchedType(objs, created[i].objectId, fetch))
                    /\ IncludesVault(FetchedType(objs, created[i].objectId, fetch))}
    IN  IF hits = {} THEN before ELSE created[Last(hits)].objectId

\* Room/Vault discovery of POST /room/create
ExtractIds(created, objs, fetch) ==
    IF Len(created) >= 2 THEN
        LET r1 == RoomFromEffects(created)
            v1 == VaultFromEffects(created)
        IN  IF r1 = UndefinedId \/ v1 = UndefinedId
            THEN [roomId |-> RoomFromFetch(created, objs, fetch, r1),
                  vaultId |-> VaultFromFetch(created, objs, fetch, v1)]
            ELSE [roomId |-> r1, vaultId |-> v1]
    ELSE [roomId |-> UndefinedId, vaultId |-> UndefinedId]

\* res.json of POST /room/create
CreateJson(result, roomId, vaultId, password) ==
    [status |-> 200, success |-> BoolText(result.success), digest |-> result.digest,
     error |-> NoText, roomId |-> roomId, vaultId |-> vaultId, password |-> password]

CreateError(code, message) ==
    [status |-> code, success |-> "absent", digest |-> 0, error |-> message,
     roomId |-> UndefinedId, vaultId |-> UndefinedId, password |-> Absent]

NoScenario == Scenario(<<>>, FALSE, "ok")

\* what the ledger does with the create_room transaction: throw, execute with a
\* failure status (nothing created), or execute it and create objects
CreateLedgerOutcomes(digest, firstId) ==
    {[throws |-> TRUE, message |-> <<"network unreachable">>, digest |-> 0,
      effects |-> NoEffects, scenario |-> NoScenario],
     [throws |-> FALSE, message |-> NoText, digest |-> digest,
      effects |-> [present |-> TRUE, statusPresent |-> TRUE, status |-> "failure",
                   created |-> <<>>],
      scenario |-> NoScenario]}
    \cup {[throws |-> FALSE, message |-> NoText, digest |-> digest,
            effects |-> [present |-> TRUE, statusPresent |-> TRUE, status |-> "success",
                         created |-> CreatedList(sc, firstId)],
            scenario |-> sc] : sc \in CreateScenarios}

\* outcomes of the start_room transaction of the auto-start
StartOutcomes(digest) ==
    { [throws |-> TRUE, message |-> <<"network unreachable">>, digest |-> 0,
       effects |-> NoEffects],
      [throws |-> FALSE, message |-> NoText, digest |-> digest,
       effects |-> [present |-> TRUE, statusPresent |-> TRUE, status |-> "failure",
                    created |-> <<>>]],
      [throws |-> FALSE, message |-> NoText, digest |-> digest,
       effects |-> [present |-> TRUE, statusPresent |-> TRUE, status |-> "success",
                    created |-> <<>>]] }

\* one request to POST /room/create with what its environment does: the body, the
\* random draws, the ledger's answers and whether the database write fails
CreateInput(body, draw, ledgerOut, dbFails, startOut) ==
    [body |-> body, draw |-> draw, ledgerOut |-> ledgerOut, dbFails |-> dbFails,
     startOut |-> startOut]

CreateInputs(digest, firstId) ==
    LET anyDraw == CHOOSE d \in RandomDraws : TRUE
        anyLedger == CHOOSE o \in CreateLedgerOutcomes(digest, firstId) : o.throws
        anyStart == CHOOSE o \in StartOutcomes(digest) : o.throws
        bodies == {CreateInput(ValidBody(FALSE), anyDraw, anyLedger, FALSE, anyStart)}
                  \cup {CreateInput(ValidBody(TRUE), d, anyLedger, FALSE, anyStart) :
                            d \in RandomDraws}
    IN  {CreateInput(b, anyDraw, anyLedger, FALSE, anyStart) : b \in InvalidBodies}
        \cup {[in EXCEPT !.ledgerOut = o] :
                  in \in bodies, o \in CreateLedgerOutcomes(digest, firstId)}
        \cup {[in EXCEPT !.ledgerOut = o, !.dbFails = TRUE] :
                  in \in bodies,
                  o \in {x \in CreateLedgerOutcomes(digest, firstId) :
                            Len(x.scenario.kinds) = 2 /\ x.scenario.typesInEffects}}
        \cup {[in EXCEPT !.ledgerOut = o, !.startOut = st] :
                  in \in bodies,
                  o \in {x \in CreateLedgerOutcomes(digest, firstId) :
                            Len(x.scenario.kinds) = 2},
                  st \in StartOutcomes(digest)}

\* the ledger state after the create_room transaction
ObjectsAfter(out, body) ==
    IF out.throws \/ out.effects.status # "success" THEN objects
    ELSE objects \o [i \in 1..Len(out.scenario.kinds) |->
            [type |-> out.scenario.kinds[i],
             start_time |-> IF out.scenario.kinds[i] = RoomType THEN body.startTimeMs ELSE 0,
             strategy_id |-> IF out.scenario.kinds[i] = RoomType THEN body.strategyId ELSE 0,
             principal |-> 0, reward |-> 0]]

\* RelayerService.createRoom and RelayerService.startRoom
createRoom(params, signOut, ledgerOut) ==
    executeSponsoredTx(MoveCall("money_race_v2::create_room",
                                <<Pure(params.totalPeriods, "u64"),
                                  Pure(params.depositAmount, "u64"),
                                  Pure(params.strategyId, "u8"),
                                  Pure(params.startTimeMs, "u64"),
                                  Pure(params.periodLengthMs, "u64")>>),
                       signOut, ledgerOut)

\* variant: a start that threw is submitted a second time
startRoom_Again(roomId, signOut, ledgerOut) ==
    executeSponsoredTx_Retry(MoveCall("money_race_v2::start_room",
                                      <<Pure(roomId, "object")>>),
                             signOut, ledgerOut)

startRoom(roomId, signOut, ledgerOut) ==
    executeSponsoredTx(MoveCall("money_race_v2::start_room", <<Pure(roomId, "object")>>),
                       signOut, ledgerOut)

\* the handler of POST /room/create over a version store of roomStoreService.addRoom
RoomCreateWith(in, store(_, _, _, _)) ==
        LET body == in.body
            draw == in.draw
            ledgerOut == in.ledgerOut
            dbFails == in.dbFails
            startOut == in.startOut
            r == [ep |-> "room/create", body |-> body]
            generatedPassword == IF body.isPrivate THEN GeneratePassword(draw) ELSE NoText
            \* console.log('Generated password for private room:', generatedPassword)
            logged == IF body.isPrivate
                      THEN <<Did("console", "Generated password for private room:",
                                 {generatedPassword}, TRUE)>>
                      ELSE <<>>
            call == createRoom(body @@ [password |-> generatedPassword], NoThrow, ledgerOut)
            objs == ObjectsAfter(ledgerOut, body)
            ids == ExtractIds(call.value.effects.created, objs, ledgerOut.scenario.fetch)
            passwordHashHex ==
                IF body.isPrivate /\ generatedPassword # NoText
                THEN Keccak(generatedPassword) ELSE NullHash
            roomData ==
                [roomId |-> ids.roomId, name |-> NoText, vaultId |-> ids.vaultId,
                 creatorAddress |-> "(gasless)", totalPeriods |-> body.totalPeriods,
                 depositAmount |-> body.depositAmount, strategyId |-> body.strategyId,
                 isPrivate |-> body.isPrivate, passwordHash |-> passwordHashHex,
                 startTimeMs |-> body.startTimeMs, periodLengthMs |-> body.periodLengthMs,
                 createdAt |-> now, transactionDigest |-> call.value.digest]
            upsert == Did("upsert", "rooms", {roomData.name} \ {NoText}, ~dbFails)
            start == startRoom(ids.roomId, NoThrow, startOut)
        IN
        /\ Len(objects) + Len(ledgerOut.scenario.kinds) <= MaxObjects
        /\ IF body.totalPeriods = 0 \/ body.depositAmount = 0 \/ body.strategyId = -1
              \/ body.startTimeMs = 0 \/ body.periodLengthMs = 0 THEN
              /\ Answer(r, CreateError(400, <<"Missing required fields">>))
              /\ UNCHANGED world
           ELSE IF call.threw THEN
              /\ AnswerAfterOps(r, call,
                   CreateError(500, MessageOr(call.message, <<"Failed to create room">>)),
                     logged \o RelayTrace(call))
              /\ UNCHANGED world
           ELSE IF ids.roomId = UndefinedId THEN
              /\ AnswerAfterOps(r, call,
                     CreateJson(call.value, ids.roomId, ids.vaultId,
                                IF body.isPrivate THEN Str(generatedPassword) ELSE Absent),
                     logged \o RelayTrace(call))
              /\ objects' = objs
              /\ nextObject' = Len(objs) + 1
              /\ UNCHANGED <<dir, now, events, strategies>>
           ELSE IF dbFails THEN
              /\ AnswerAfterOps(r, call, CreateError(500, <<"database unavailable">>),
                                logged \o RelayTrace(call) \o <<upsert>>)
              /\ objects' = objs
              /\ nextObject' = Len(objs) + 1
              /\ UNCHANGED <<dir, now, events, strategies>>
           ELSE
              /\ req' = r
              /\ resp' = CreateJson(call.value, ids.roomId, ids.vaultId,
                                    IF body.isPrivate THEN Str(generatedPassword) ELSE Absent)
              /\ relay' = [mode |-> call.mode, signs |-> <<>>, rpc |-> <<>>,
                           threw |-> call.threw, message |-> call.message,
                           value |-> call.value]
              /\ rpc' = call.rpc \o start.rpc
              /\ signs' = call.signs \o start.signs
              /\ trace' = logged \o RelayTrace(call) \o <<upsert>> \o RelayTrace(start)
              /\ dir' = store(dir, roomData, NewRowId(dir, roomData.roomId), now)
              /\ objects' = objs
              /\ nextObject' = Len(objs) + 1
              /\ UNCHANGED <<now, events, strategies>>

RoomCreate(in) == RoomCreateWith(in, addRoom)

PostRoomCreate == \E in \in CreateInputs(nextObject, nextObject) : RoomCreate(in)

-----------------------------------------------------------------------------
(* POST /room/start and POST /room/finalize *)

\* RelayerService.finalizeRoom
finalizeRoom(roomId, signOut, ledgerOut) ==
    executeSponsoredTx(MoveCall("money_race_v2::finalize_room", <<Pure(roomId, "object")>>),
                       signOut, ledgerOut)

\* req.body.roomId: missing, null, or the id of an object
RoomIdInputs == {UndefinedId, NullId} \cup 1..MaxRooms

AdminRequest(ep, roomId) ==
    [ep |-> ep, txBytes |-> Absent, userSignature |-> Absent, recipient |-> Absent,
     amount |-> NoAmount, roomId |-> roomId]

\* !roomId
FalsyId(roomId) == roomId \in {UndefinedId, NullId}

RoomStart(roomId, signOut, ledgerOut) ==
    LET r == AdminRequest("room/start", roomId) IN
    IF FalsyId(roomId) THEN
        Answer(r, ErrorJson(400, <<"Room ID required">>))
    ELSE
        LET call == startRoom(roomId, signOut, ledgerOut) IN
        AnswerAfterRelay(r, call,
            IF call.threw
            THEN ErrorJson(500, MessageOr(call.message, <<"Failed to start room">>))
            ELSE ResultJson(call.value))

PostRoomStart ==
    \E roomId \in RoomIdInputs, signOut \in SignOutcomes, ledgerOut \in LedgerOutcomes :
        RoomStart(roomId, signOut, ledgerOut)

RoomFinalize(roomId, signOut, ledgerOut) ==
    LET r == AdminRequest("room/finalize", roomId) IN
    IF FalsyId(roomId) THEN
        Answer(r, ErrorJson(400, <<"Room ID required">>))
    ELSE
        LET call == finalizeRoom(roomId, signOut, ledgerOut) IN
        AnswerAfterRelay(r, call,
            IF call.threw
            THEN ErrorJson(500, MessageOr(call.message, <<"Failed to finalize room">>))
            ELSE ResultJson(call.value))

PostRoomFinalize ==
    \E roomId \in RoomIdInputs, signOut \in SignOutcomes, ledgerOut \in LedgerOutcomes :
        RoomFinalize(roomId, signOut, ledgerOut)

-----------------------------------------------------------------------------
(* POST /room/find-by-password *)

\* candidate passwords: missing, empty, the generated ones and one never generated
PasswordInputs ==
    {Absent, Str(<<>>), Str(<<"w", "r", "o", "n", "g", "p", "w", "d">>)}
    \cup {Str(GeneratePassword(draw)) : draw \in RandomDraws}

FindJson(code, success, roomId, vaultId, message) ==
    [status |-> code, success |-> success, digest |-> 0, error |-> message,
     roomId |-> roomId, vaultId |-> vaultId, password |-> Absent]

PostRoomFindByPassword ==
    \E password \in PasswordInputs, dbFails \in BOOLEAN :
        LET r == [ep |-> "room/find-by-password", password |-> password]
            hashHex == Keccak(password.text)
            found == findByPasswordHash(dir, hashHex)
        IN
        /\ UNCHANGED world
        /\ IF ~Truthy(password) THEN
              Answer(r, FindJson(400, "absent", UndefinedId, UndefinedId,
                                 <<"Password required">>))
           ELSE IF dbFails THEN
              Answer(r, FindJson(500, "absent", UndefinedId, UndefinedId,
                                 <<"database unavailable">>))
           ELSE IF found = {} THEN
              Answer(r, FindJson(404, "absent", UndefinedId, UndefinedId,
                                 <<"No room found with this password">>))
           ELSE
              \E room \in found :
                  Answer(r, FindJson(200, "true", room.roomId, room.vaultId, NoText))

-----------------------------------------------------------------------------
(* Ledger events and the event service *)

NoEvents == [join |-> <<>>, deposit |-> <<>>]

\* object ids as the strings they travel in: hex digits, with or without the "0x"
\* prefix; the ledger writes ids as "0x" and 64 hex digits
IdText(hex, prefixed, length) == [hex |-> hex, prefixed |-> prefixed, length |-> length]

Canonical(hex) == IdText(hex, TRUE, 66)

DigitValue ==
    ("0" :> 0) @@ ("1" :> 1) @@ ("2" :> 2) @@ ("3" :> 3) @@ ("4" :> 4) @@
    ("5" :> 5) @@ ("6" :> 6) @@ ("7" :> 7) @@ ("8" :> 8) @@ ("9" :> 9)

RECURSIVE ParseDigits(_, _)
ParseDigits(text, acc) ==
    IF text = <<>> \/ Head(text) \notin DOMAIN DigitValue THEN acc
    ELSE ParseDigits(Tail(text), acc * 10 + DigitValue[Head(text)])

\* parseInt(text): the value of the longest prefix of decimal digits, NaN if there
\* is none
parseInt(text) ==
    IF text = <<>> \/ Head(text) \notin DOMAIN DigitValue
    THEN [nan |-> TRUE, value |-> 0]
    ELSE [nan |-> FALSE, value |-> ParseDigits(text, 0)]

\* parseInt(x) || 0
OrZero(n) == IF n.nan THEN 0 ELSE n.value

\* an event: parsedJson.room_id and the u64 amount in decimal text
\* one event as queryEvents returns it: id { txDigest, eventSeq } and parsedJson
Event(id, room, player, amount) ==
    [id |-> id, room_id |-> Canonical(room), player |-> player, amount |-> amount]

\* events the ledger emits for PlayerJoined and DepositMade
EventInputs ==
    { Event(1, 1, "0xA", <<"5", "0", "0", "0", "0", "0">>),
      Event(2, 1, "0xB", <<"2", "5", "0", "0", "0", "0">>),
      Event(3, 3, "0xA", <<"1", "0", "0", "0", "0", "0", "0">>) }

\* suiClient.queryEvents({ query, limit }): one page of at most limit events
Page(log, limit) == SubSeq(log, 1, IF Len(log) < limit THEN Len(log) ELSE limit)

queryPlayerJoinedEvents(ev, limit) == [data |-> Page(ev.join, limit)]

queryDepositMadeEvents(ev, limit) == [data |-> Page(ev.deposit, limit)]

queryRoomEvents(ev) ==
    [joinEvents |-> queryPlayerJoinedEvents(ev, PLAYER_JOINED),
     depositEvents |-> queryDepositMadeEvents(ev, DEPOSIT_MADE)]

RECURSIVE SumAmounts(_, _)
\* data.filter(room_id === roomId).forEach(total += parseInt(amount) || 0)
SumAmounts(data, roomId) ==
    IF data = <<>> THEN 0
    ELSE (IF Head(data).room_id = roomId THEN OrZero(parseInt(Head(data).amount)) ELSE 0)
         + SumAmounts(Tail(data), roomId)

\* units / USDC_DECIMALS as an exact decimal: whole USDC and millionths
DivideByScale(units) ==
    [whole |-> units \div USDC_DECIMALS, micro |-> units % USDC_DECIMALS]

\* variant: only PlayerJoined events are summed
calculateRoomTotalDeposit_JoinsOnly(roomId, fetched) ==
    DivideByScale(SumAmounts(fetched.joinEvents.data, roomId))

\* calculateRoomTotalDeposit(roomId, events)
calculateRoomTotalDeposit(roomId, fetched) ==
    DivideByScale(SumAmounts(fetched.joinEvents.data, roomId)
                  + SumAmounts(fetched.depositEvents.data, roomId))

\* the ledger executes a join or a deposit and emits its event
LedgerEmitsPlayerJoined ==
    \E e \in EventInputs :
        /\ Len(events.join) + Len(events.deposit) < MaxEvents
        /\ events' = [events EXCEPT !.join = Append(@, e)]
        /\ UNCHANGED <<req, resp, relay, rpc, signs, trace, dir, now, objects, nextObject, strategies>>

LedgerEmitsDepositMade ==
    \E e \in EventInputs :
        /\ Len(events.join) + Len(events.deposit) < MaxEvents
        /\ events' = [events EXCEPT !.deposit = Append(@, e)]
        /\ UNCHANGED <<req, resp, relay, rpc, signs, trace, dir, now, objects, nextObject, strategies>>

-----------------------------------------------------------------------------
(* GET /room/:id *)

\* a property read obj.key: undefined when the object has no such property
Undefined == [defined |-> FALSE, value |-> 0]

Get(obj, key) ==
    IF key \in DOMAIN obj THEN [defined |-> TRUE, value |-> obj[key]] ELSE Undefined

NoContent ==
    [dataType |-> "none", type |-> NoType, fields |-> [start_time |-> 0, strategy_id |-> 0],
     vaultData |-> "null"]

\* roomId.startsWith('0x') ? roomId : `0x${roomId}`
Normalized(id) == IF id.prefixed THEN id ELSE IdText(id.hex, TRUE, id.length + 2)

\* RelayerService.getRoomData(roomId): { ...object.data.content, vaultData }
getRoomData(objs, roomId) ==
    IF Normalized(roomId) = Canonical(roomId.hex) /\ roomId.hex \in DOMAIN objs
    THEN [threw |-> FALSE, message |-> NoText,
          value |-> [dataType |-> "moveObject", type |-> objs[roomId.hex].type,
                     fields |-> [start_time |-> objs[roomId.hex].start_time,
                                 strategy_id |-> objs[roomId.hex].strategy_id],
                     vaultData |-> "null"]]
    ELSE [threw |-> TRUE,
          message |-> <<"Room not found: ", "Room object not found for ID">>,
          value |-> NoContent]

\* the roomId column value a request id equals as a string (none: NullId)
StoredKey(id) == IF id = Canonical(id.hex) THEN id.hex ELSE NullId

\* RoomStoreService.updateYield(roomId, accumulatedYield, lastYieldUpdateMs)
updateYield(d, roomId, accumulatedYield, lastYieldUpdateMs) ==
    {IF row.roomId = roomId
     THEN [row EXCEPT !.accumulatedYield = accumulatedYield,
                      !.lastYieldUpdateMs = lastYieldUpdateMs]
     ELSE row : row \in d}

\* APY of a strategy in percent
ApyPercent(strategy) == IF strategy = 1 THEN 8 ELSE IF strategy = 2 THEN 15 ELSE 4

\* time-based accrued yield of GET /room/:id.  Amounts of yield are numerators over
\* USDC_DECIMALS * 100 * (365.25 * 24 * 60 * 60 * 1000); principal is in base units
YieldBlock(roomData, dbRoom, vaultPrincipal, t) ==
    LET startTimeMs == Get(roomData, "startTimeMs")
        strategy == Get(roomData, "strategy")
        apy == ApyPercent(strategy.value)
        stored == Get(dbRoom, "accumulatedYield")
        last == Get(dbRoom, "lastYieldUpdateMs")
        accumulatedYield == IF dbRoom.found /\ stored.defined THEN stored.value ELSE 0
        lastUpdateMs == IF dbRoom.found /\ last.defined /\ last.value # 0
                        THEN last.value ELSE startTimeMs.value
        newYield == vaultPrincipal * apy * (t - lastUpdateMs)
    IN  IF /\ startTimeMs.defined
           /\ startTimeMs.value # 0
           /\ strategy.defined
           /\ vaultPrincipal > 0
        THEN [ran |-> TRUE, accumulatedYield |-> accumulatedYield + newYield,
              write |-> dbRoom.found /\ newYield > 0]
        ELSE [ran |-> FALSE, accumulatedYield |-> 0, write |-> FALSE]

\* the handler's own aggregation of the two event pages
RoomTotalDeposit(id, joinEvents, depositEvents) ==
    DivideByScale(SumAmounts(joinEvents.data, id) + SumAmounts(depositEvents.data, id))

NoRoom ==
    [type |-> NoType, fields |-> NoContent.fields, vaultId |-> NullId,
     transactionDigest |-> 0, totalDeposit |-> DivideByScale(0),
     rewardPool |-> [units |-> 0, yield |-> 0]]

RoomJson(room) ==
    [status |-> 200, success |-> "true", digest |-> 0, error |-> NoText, room |-> room]

RoomError(code, message) ==
    [status |-> code, success |-> "absent", digest |-> 0, error |-> message, room |-> NoRoom]

\* ids asked for: a short one, the ids of two rooms as the ledger writes them, one
\* without the prefix, and one that names no object
RequestIds ==
    {IdText(1, TRUE, 3), Canonical(1), IdText(1, FALSE, 64), Canonical(3), Canonical(9)}

\* the two event queries: both answer, or one of them rejects
QueryOutcomes == {"ok", "joinRejects", "depositRejects"}

GetRoomById ==
    \E id \in RequestIds, queries \in QueryOutcomes, vaultFetch \in {"ok", "throws"},
       writeOut \in {"done", "failed"} :
        LET joinEvents == queryPlayerJoinedEvents(events, PLAYER_JOINED)
            depositEvents == queryDepositMadeEvents(events, DEPOSIT_MADE)
            r == [ep |-> "room/:id", id |-> id, queries |-> queries,
                  vaultFetch |-> vaultFetch, joinEvents |-> joinEvents,
                  depositEvents |-> depositEvents, at |-> now]
        IN
        IF id.length < MIN_ID_LENGTH THEN
            /\ Answer(r, RoomError(400, <<"Invalid Room ID format">>))
            /\ UNCHANGED world
        ELSE
            \E dbRoom \in getRoom(dir, StoredKey(id)) :
                LET roomData == getRoomData(objects, id)
                    totalDeposit ==
                        IF queries = "ok"
                        THEN RoomTotalDeposit(id, joinEvents, depositEvents)
                        ELSE DivideByScale(0)
                    hasVault == dbRoom.found /\ dbRoom.vaultId \notin {NullId, UndefinedId}
                    vaultRead == /\ hasVault
                                 /\ vaultFetch = "ok"
                                 /\ dbRoom.vaultId \in DOMAIN objects
                    rewardBalance == IF vaultRead THEN objects[dbRoom.vaultId].reward ELSE 0
                    vaultPrincipal == IF vaultRead THEN objects[dbRoom.vaultId].principal ELSE 0
                    yield == YieldBlock(roomData.value, dbRoom, vaultPrincipal, now)
                    mergedData ==
                        [type |-> roomData.value.type,
                         fields |-> roomData.value.fields,
                         vaultId |-> IF hasVault THEN dbRoom.vaultId ELSE NullId,
                         transactionDigest |->
                            IF dbRoom.found THEN dbRoom.transactionDigest ELSE 0,
                         totalDeposit |-> totalDeposit,
                         rewardPool |-> [units |-> rewardBalance,
                                         yield |-> yield.accumulatedYield]]
                IN
                IF roomData.threw THEN
                    /\ Answer(r, RoomError(404, roomData.message))
                    /\ UNCHANGED world
                ELSE
                    /\ Answer(r, RoomJson(mergedData))
                    /\ dir' = IF yield.write /\ writeOut = "done"
                              THEN updateYield(dir, StoredKey(id), yield.accumulatedYield, now)
                              ELSE dir
                    /\ UNCHANGED <<now, objects, nextObject, events, strategies>>

-----------------------------------------------------------------------------
(* The relay specification: requests to the transaction endpoints *)

\* AIService.strategies: the three strategies, none recommended, none with reasoning
Strategy(id, name, riskLevel, expectedReturn) ==
    [id |-> id, name |-> name, riskLevel |-> riskLevel, expectedReturn |-> expectedReturn,
     recommended |-> FALSE, reasoning |-> Undefined]

AIService_strategies ==
    <<Strategy(1, "Conservative", "low", 4),
      Strategy(2, "Balanced", "medium", 8),
      Strategy(3, "Aggressive", "high", 15)>>

NoReq == Request("none", Absent, Absent)

InitRelay ==
    /\ req = NoReq
    /\ resp = NoResp
    /\ relay = NoRelay
    /\ rpc = <<>>
    /\ signs = <<>>
    /\ trace = <<>>
    /\ dir = {}
    /\ now = 1
    /\ objects = <<>>
    /\ nextObject = 1
    /\ strategies = AIService_strategies
    /\ events = NoEvents

RelayStep ==
    \/ PostRoomExecuteSponsored
    \/ PostRoomJoin
    \/ PostRoomDeposit
    \/ PostRoomClaim
    \/ PostSponsoredExecute
    \/ PostSponsoredExecuteUtils
    \/ PostUsdcMint
    \/ PostRoomStart
    \/ PostRoomFinalize

NextRelay == RelayStep /\ UNCHANGED world

SpecRelay == InitRelay /\ [][NextRelay]_vars

-----------------------------------------------------------------------------
(* Properties of the Transaction Relay *)

\* what JSON means for the signature texts of SignatureInputs that are lists
JSONListMeaning ==
    (<<"[", "]">> :> <<>>)
    @@ (<<"[", "N_7", "]">> :> <<[kind |-> "number", text |-> <<"N_7">>, over |-> <<>>]>>)
    @@ (<<"[", "S_sigA", ",", "S_sigB", "]">> :>
            << [kind |-> "string", text |-> <<"S_sigA">>, over |-> <<>>],
               [kind |-> "string", text |-> <<"S_sigB">>, over |-> <<>>] >>)

\* what base64 means for the transaction texts of TxBytesInputs
Base64Meaning == (<<1, 2, 3, 4>> :> <<4, 32, 196>>) @@ (<<16, 0, 5>> :> <<64, 1>>)

CosignedCall == relay.mode = "cosigned"

SignatureIsList == req.userSignature.text \in DOMAIN JSONListMeaning

\* C2: whenever the user signature parses as a JSON list, the relay submits exactly
\* the parsed list, performs no sponsor signing operation and appends no sponsor
\* signature (duplicate-signing guard)
C2_DuplicateSigningGuard ==
    (CosignedCall /\ SignatureIsList) =>
        /\ signs = <<>>
        /\ Len(rpc) = 1
        /\ rpc[1].signature = JSONListMeaning[req.userSignature.text]
        /\ \A i \in 1..Len(rpc[1].signature) : rpc[1].signature[i].kind # "sponsorSig"

C2_Witness ==
    /\ CosignedCall
    /\ req.userSignature.text = <<"[", "S_sigA", ",", "S_sigB", "]">>
    /\ Len(rpc) = 1
    /\ Len(rpc[1].signature) = 2

\* C3: when the user signature is not a JSON list, the relay submits exactly
\* [userSignature, sponsorSignature] in that order, the sponsor signature being over
\* the submitted bytes, which are the base64 decoding of the received txBytes
C3_SponsorCosignsSameBytes ==
    (CosignedCall /\ ~SignatureIsList) =>
        /\ Len(signs) = 1
        /\ signs[1].over = Base64Meaning[req.txBytes.text]
        /\ \A i \in 1..Len(rpc) :
              /\ rpc[i].transactionBlock = Base64Meaning[req.txBytes.text]
              /\ Len(rpc[i].signature) = 2
              /\ rpc[i].signature[1] =
                     [kind |-> "string", text |-> req.userSignature.text, over |-> <<>>]
              /\ rpc[i].signature[2] =
                     [kind |-> "sponsorSig", text |-> <<>>, over |-> rpc[i].transactionBlock]

C3_Witness ==
    /\ CosignedCall
    /\ req.userSignature.text = <<"RAW">>
    /\ req.txBytes.text = <<1, 2, 3, 4>>
    /\ Len(rpc) = 1
    /\ ~rpc[1].throws

\* the ledger's execution-status field of a returned result reports success
LedgerReportsSuccess(call) ==
    call.effects.present /\ call.effects.statusPresent /\ call.effects.status = "success"

\* C4: in both submission modes success is true iff the ledger's execution status
\* is success, absent effects or status give false, and digest is the digest the
\* ledger issued for that submission
C4_SuccessIffLedgerStatus ==
    (relay.mode # "none" /\ ~relay.threw) =>
        /\ Len(rpc) = 1
        /\ relay.value.success <=> LedgerReportsSuccess(rpc[1])
        /\ (~rpc[1].effects.present \/ ~rpc[1].effects.statusPresent)
              => ~relay.value.success
        /\ relay.value.digest = rpc[1].issued

C4_Witness ==
    /\ relay.mode = "legacy"
    /\ ~relay.threw
    /\ rpc[1].effects.present
    /\ ~rpc[1].effects.statusPresent
    /\ relay.value.digest = 2

FundMovingEndpoints ==
    {"room/join", "room/deposit", "room/claim", "room/execute-sponsored",
     "sponsored/execute", "sponsored/execute#utils", "usdc/mint"}

SubmissionFailed ==
    \/ \E i \in 1..Len(signs) : signs[i].throws
    \/ \E i \in 1..Len(rpc) :
          rpc[i].throws \/ (rpc[i].effects.statusPresent /\ rpc[i].effects.status = "failure")

\* C5: for every transaction endpoint, when the ledger executed the transaction with
\* a failure status or the submission threw, the response does not carry success = true
C5_FailureNeverReportedAsSuccess ==
    (req.ep \in FundMovingEndpoints /\ SubmissionFailed) => resp.success # "true"

EndsWith(message, tail) ==
    /\ Len(message) >= Len(tail)
    /\ SubSeq(message, Len(message) - Len(tail) + 1, Len(message)) = tail

\* the first failure met by the relay call
ProximateCause ==
    IF \E i \in 1..Len(signs) : signs[i].throws
    THEN signs[CHOOSE i \in 1..Len(signs) : signs[i].throws].message
    ELSE rpc[CHOOSE i \in 1..Len(rpc) : rpc[i].throws].message

SubmissionThrew ==
    \/ \E i \in 1..Len(signs) : signs[i].throws
    \/ \E i \in 1..Len(rpc) : rpc[i].throws

\* C6: a failing submission makes the relay call fail with an error whose message
\* carries the proximate cause message, and the submit RPC is invoked at most once
\* per relay call
C6_FailureCarriesCauseNoRetry ==
    /\ Len(rpc) <= 1
    /\ SubmissionThrew =>
          /\ relay.threw
          /\ Len(relay.message) > Len(ProximateCause)
          /\ EndsWith(relay.message, ProximateCause)

C6_Witness ==
    /\ relay.mode = "legacy"
    /\ Len(rpc) = 1
    /\ rpc[1].throws
    /\ relay.threw

-----------------------------------------------------------------------------
(* The creation specification: rooms are created and looked up by password *)

InitCreate == InitRelay

NextCreate ==
    \/ PostRoomCreate
    \/ PostRoomFindByPassword
    \/ Tick

SpecCreate == InitCreate /\ [][NextCreate]_vars

CreateAnswered ==
    /\ req.ep = "room/create"
    /\ resp.status = 200

\* C7: after POST /room/create succeeded and extracted both a Room id and a Vault id,
\* get(roomId) of the directory returns a record whose vaultId is the extracted Vault
\* id, the response carries the same two ids, and they name the Room and the Vault
\* the creation transaction made on the ledger.
C7_DirectoryHoldsExtractedVault ==
    (/\ CreateAnswered
     /\ resp.success = "true"
     /\ resp.roomId # UndefinedId
     /\ resp.vaultId # UndefinedId)
    => /\ \A answer \in getRoom(dir, resp.roomId) :
              /\ answer.found
              /\ answer.roomId = resp.roomId
              /\ answer.vaultId = resp.vaultId
       /\ \E i, j \in 1..Len(relay.value.effects.created) :
              /\ relay.value.effects.created[i].objectId = resp.roomId
              /\ relay.value.effects.created[j].objectId = resp.vaultId
       /\ objects[resp.roomId].type = RoomType
       /\ objects[resp.vaultId].type = VaultType

\* a second room was created, its Vault listed before its Room and the object types
\* learnt from the fallback fetch
C7_Witness ==
    /\ CreateAnswered
    /\ resp.success = "true"
    /\ resp.vaultId # UndefinedId
    /\ resp.roomId > resp.vaultId
    /\ relay.value.effects.created[1].objectType = NoType
    /\ Cardinality(dir) = 2
    /\ \E answer \in getRoom(dir, resp.roomId) : answer.vaultId = resp.vaultId

\* C10: a private room created with generated password p is the room that
\* find-by-password answers for p (same roomId and vaultId), and a password that is
\* the password of no stored room is answered 404.
C10_PasswordRoundTrip ==
    /\ (/\ CreateAnswered
        /\ Truthy(resp.password)
        /\ resp.roomId # UndefinedId)
       => \A room \in findByPasswordHash(dir, Keccak(resp.password.text)) :
              room.roomId = resp.roomId
    /\ (/\ req.ep = "room/find-by-password"
        /\ Truthy(req.password)
        /\ resp.status # 500)
       => IF \E row \in dir : row.isPrivate /\ row.passwordHash = Keccak(req.password.text)
          THEN /\ resp.status = 200
               /\ \A row \in dir :
                      (row.isPrivate /\ row.passwordHash = Keccak(req.password.text))
                      => (resp.roomId = row.roomId /\ resp.vaultId = row.vaultId)
          ELSE resp.status = 404

\* every password the generator can produce
GeneratedPasswords == {GeneratePassword(d) : d \in RandomDraws}

\* the texts a directory row stores
RowTexts(row) == {row.name} \ {NoText}

\* C11: the plaintext password of a room appears in exactly one output, the response
\* of POST /room/create for a room created with isPrivate true (a 200 response carries
\* a password if and only if isPrivate is true): no other operation of the request
\* (console line, ledger submission, directory write) carries it, no directory row
\* stores it, and no other endpoint returns one.
C11_PlaintextOnlyInCreateResponse ==
    /\ \A i \in 1..Len(trace) : trace[i].texts \cap GeneratedPasswords = {}
    /\ \A row \in dir : RowTexts(row) \cap GeneratedPasswords = {}
    /\ CreateAnswered => (resp.password.present <=> req.body.isPrivate)
    /\ (req.ep = "room/create" /\ resp.status # 200) => ~resp.password.present
    /\ req.ep = "room/find-by-password" => ~resp.password.present

-----------------------------------------------------------------------------
(* Input validation of the state-changing endpoints *)

\* a request field that is missing: undefined or the empty string
Missing(f) == f = Absent \/ f = Str(NoText)

\* the requests input validation must reject
Invalid(r) ==
    \/ /\ r.ep \in {"room/join", "room/deposit", "room/claim", "room/execute-sponsored",
                    "sponsored/execute", "sponsored/execute#utils"}
       /\ (Missing(r.txBytes) \/ Missing(r.userSignature))
    \/ /\ r.ep = "room/create"
       /\ r.body \in InvalidBodies
    \/ /\ r.ep \in {"room/start", "room/finalize"}
       /\ r.roomId \in {UndefinedId, NullId}
    \/ /\ r.ep = "usdc/mint"
       /\ (~r.amount.present \/ r.amount.n <= 0 \/ r.amount.n > MAX_MINT)

\* the environment of the requests below: the sponsor key signs and the ledger
\* executes what is submitted
Executed ==
    [throws |-> FALSE, message |-> NoText, digest |-> 1,
     effects |-> [present |-> TRUE, statusPresent |-> TRUE, status |-> "success",
                  created |-> <<>>]]

\* every request to join, deposit, claim and execute-sponsored
RequestSponsored ==
    \E ep \in DOMAIN RoomSponsoredEndpoints,
       txBytes \in TxBytesInputs, userSignature \in SignatureInputs :
        /\ RoomSponsored(ep, RoomSponsoredEndpoints[ep], txBytes, userSignature,
                         NoThrow, Executed)
        /\ UNCHANGED world

\* every request to /sponsored/execute, in both versions of its handler
RequestExecute ==
    \E txBytes \in TxBytesInputs, userSignature \in SignatureInputs :
        /\ \/ SponsoredExecute(txBytes, userSignature, NoThrow, Executed)
           \/ SponsoredExecuteUtils(txBytes, userSignature, NoThrow, Executed)
        /\ UNCHANGED world

RequestMint ==
    \E recipient \in Recipients, amount \in MintAmounts :
        UsdcMint(recipient, amount, NoThrow, Executed) /\ UNCHANGED world

RequestStart ==
    \E roomId \in RoomIdInputs : RoomStart(roomId, NoThrow, Executed) /\ UNCHANGED world

RequestFinalize ==
    \E roomId \in RoomIdInputs : RoomFinalize(roomId, NoThrow, Executed) /\ UNCHANGED world

\* every creation with a missing field, and the creations of public rooms that store
\* a Room with its Vault
RequestCreate ==
    \E in \in CreateInputs(nextObject, nextObject) :
        /\ \/ in.body \in InvalidBodies
           \/ /\ ~in.body.isPrivate
              /\ ~in.ledgerOut.throws
              /\ in.ledgerOut.scenario = Scenario(<<RoomType, VaultType>>, TRUE, "ok")
              /\ ~in.dbFails
              /\ ~in.startOut.throws
        /\ RoomCreate(in)

InitValidate == InitRelay

NextValidate ==
    \/ RequestSponsored
    \/ RequestExecute
    \/ RequestMint
    \/ RequestStart
    \/ RequestFinalize
    \/ RequestCreate

SpecValidate == InitValidate /\ [][NextValidate]_vars

\* C12: a request rejected by input validation (txBytes or userSignature missing on
\* join, deposit, claim or execute; a required field missing on create; roomId missing
\* on start or finalize; a mint amount missing, non-positive or above 1,000,000,000)
\* is answered 400 and causes no ledger RPC, no sponsor signature and no directory write.
C12_RejectedWithoutSideEffects ==
    [][Invalid(req') =>
          /\ resp'.status = 400
          /\ rpc' = <<>>
          /\ signs' = <<>>
          /\ trace' = <<>>
          /\ dir' = dir]_vars

\* a creation with a missing field was rejected while the directory holds a room
C12_Witness ==
    /\ req.ep = "room/create"
    /\ Invalid(req)
    /\ resp.status = 400
    /\ dir # {}



-----------------------------------------------------------------------------
(* Rooms that exist before the requests of the specifications below *)

\* the Room and the Vault one create_room transaction makes
LedgerRoom(start, strategy, principal, reward) ==
    << [type |-> RoomType, start_time |-> start, strategy_id |-> strategy,
        principal |-> 0, reward |-> 0],
       [type |-> VaultType, start_time |-> 0, strategy_id |-> 0,
        principal |-> principal, reward |-> reward] >>

\* the row POST /room/create stores for a Room and its Vault
StoredRoom(roomId, vaultId, start, strategy) ==
    addRoom({}, [roomId |-> roomId, name |-> NoText, vaultId |-> vaultId,
                 creatorAddress |-> "(gasless)", totalPeriods |-> 4,
                 depositAmount |-> 1000000, strategyId |-> strategy, isPrivate |-> FALSE,
                 passwordHash |-> NullHash, startTimeMs |-> start, periodLengthMs |-> 7,
                 createdAt |-> 1, transactionDigest |-> roomId],
            NewRowId({}, roomId), 1)

Idle ==
    /\ req = NoReq
    /\ resp = NoResp
    /\ relay = NoRelay
    /\ rpc = <<>>
    /\ signs = <<>>
    /\ trace = <<>>
    /\ now = 1

-----------------------------------------------------------------------------
(* The aggregation specification: the ledger emits events, rooms are read *)

\* two rooms on the ledger, the first one in the directory
InitAgg ==
    /\ Idle
    /\ objects = LedgerRoom(1, 1, 1000000, 250000) \o LedgerRoom(1, 0, 0, 0)
    /\ nextObject = 5
    /\ strategies = AIService_strategies
    /\ dir = StoredRoom(1, 2, 1, 1)
    /\ events = NoEvents

NextAgg ==
    \/ LedgerEmitsPlayerJoined
    \/ LedgerEmitsDepositMade
    \/ GetRoomById

SpecAgg == InitAgg /\ [][NextAgg]_vars

\* what the decimal texts of amounts denote
AmountMeaning ==
    (<<"5", "0", "0", "0", "0", "0">> :> 500000)
    @@ (<<"2", "5", "0", "0", "0", "0">> :> 250000)
    @@ (<<"1", "0", "0", "0", "0", "0", "0">> :> 1000000)

RECURSIVE SumOver(_, _)
SumOver(S, f) ==
    IF S = {} THEN 0
    ELSE LET x == CHOOSE y \in S : TRUE IN f[x] + SumOver(S \ {x}, f)

\* the sum of amount over the events of a page whose room_id is id, in base units
MatchingUnits(page, id) ==
    LET hits == {i \in 1..Len(page) : page[i].room_id = id}
    IN  SumOver(hits, [i \in hits |-> AmountMeaning[page[i].amount]])

ExpectedUnits(joinPage, depositPage, id) ==
    MatchingUnits(joinPage, id) + MatchingUnits(depositPage, id)

InUnits(display) == display.whole * USDC_DECIMALS + display.micro

RoomAnswered ==
    /\ req.ep = "room/:id"
    /\ resp.status = 200

\* C1: for the events the ledger returns and any roomId, both calculateRoomTotalDeposit
\* and the aggregation of GET /room/:id give the sum of amount over the PlayerJoined
\* and DepositMade events whose room_id equals roomId, divided by 1,000,000; 0 when
\* no event matches.
C1_TotalDepositIsEventSum ==
    /\ \A id \in RequestIds :
          LET total == calculateRoomTotalDeposit(id, queryRoomEvents(events))
          IN  /\ InUnits(total)
                    = ExpectedUnits(Page(events.join, PLAYER_JOINED),
                                    Page(events.deposit, DEPOSIT_MADE), id)
              /\ total.micro \in 0..(USDC_DECIMALS - 1)
    /\ (RoomAnswered /\ req.queries = "ok")
       => /\ InUnits(resp.room.totalDeposit)
                = ExpectedUnits(req.joinEvents.data, req.depositEvents.data, req.id)
          /\ resp.room.totalDeposit.micro \in 0..(USDC_DECIMALS - 1)

\* 0.75 USDC: a PlayerJoined of 500000 and a DepositMade of 250000 for the room asked
\* for, beside an event of another room
C1_Witness ==
    /\ RoomAnswered
    /\ req.queries = "ok"
    /\ req.id = Canonical(1)
    /\ resp.room.totalDeposit = [whole |-> 0, micro |-> 750000]
    /\ \E i \in 1..Len(req.joinEvents.data) :
          req.joinEvents.data[i].room_id = Canonical(3)
    /\ \E i \in 1..Len(req.depositEvents.data) :
          req.depositEvents.data[i].room_id = Canonical(1)

-----------------------------------------------------------------------------
(* The yield specification: one funded room is read as time passes *)

StartTimes == {1, 3}
Strategies == {0, 1, 2}
Principals == {0, 1000000, 2000000}

InitYield ==
    /\ Idle
    /\ \E start \in StartTimes, strategy \in Strategies, principal \in Principals :
          /\ objects = LedgerRoom(start, strategy, principal, 250000)
          /\ dir = StoredRoom(1, 2, start, strategy)
    /\ nextObject = 3
    /\ strategies = AIService_strategies
    /\ events = NoEvents

NextYield ==
    \/ GetRoomById
    \/ Tick

SpecYield == InitYield /\ [][NextYield]_vars

\* the room read, as the ledger holds it
LedgerRoomRead == objects[req.id.hex]
LedgerVaultRead == objects[resp.room.vaultId]

\* principal * apy * (t - start) over USDC_DECIMALS * 100 * yearMs, as a numerator
ClosedForm(t) ==
    LedgerVaultRead.principal * ApyPercent(LedgerRoomRead.strategy_id)
    * (t - LedgerRoomRead.start_time)

\* C9: for a room with constant principal and APY read at non-decreasing times, the
\* accumulated yield a read reports equals principal * apy * (now - start) / yearMs
\* (yearMs of 365.25 days), and so does the checkpoint as of its time; neither
\* decreases.
C9_YieldClosedForm ==
    /\ (/\ RoomAnswered
        /\ req.vaultFetch = "ok"
        /\ resp.room.vaultId # NullId
        /\ LedgerVaultRead.principal > 0)
       => resp.room.rewardPool.yield = ClosedForm(req.at)
    /\ \A row \in dir :
          row.lastYieldUpdateMs # 0
          => row.accumulatedYield
                = objects[row.vaultId].principal * ApyPercent(objects[row.roomId].strategy_id)
                  * (row.lastYieldUpdateMs - objects[row.roomId].start_time)

\* the stored checkpoint of a room never decreases in a step (C15's property); no step
\* of GET /room/:id issues a checkpoint write, so it holds without any write racing
CheckpointNeverDecreases ==
    [][\A row \in dir : \A kept \in RowsOf(dir', row.roomId) :
            /\ kept.accumulatedYield >= row.accumulatedYield
            /\ kept.lastYieldUpdateMs >= row.lastYieldUpdateMs]_vars

\* GET /room/:id never writes a checkpoint
NoCheckpointWritten ==
    \A row \in dir : row.accumulatedYield = 0 /\ row.lastYieldUpdateMs = 0


-----------------------------------------------------------------------------
(* The directory specification: the store driven through its service interface *)

InitDir == InitRelay

NextDir ==
    \/ StoreAddRoom
    \/ StoreAddRoomLegacy
    \/ Tick

SpecDir == InitDir /\ [][NextDir]_vars

\* what the read operations of the directory answer
Observable(d) ==
    [get |-> [r \in 1..MaxRooms |-> getRoom(d, r)],
     listAll |-> getAllRooms(d),
     listByCreator |-> [c \in Creators |-> getRoomsByCreator(d, c)],
     exists |-> [r \in 1..MaxRooms |-> hasRoom(d, r)],
     count |-> getRoomCount(d),
     findByPasswordHash |->
        {ToRoomData(row) : row \in findByPasswordHash(d, Keccak(<<"A", "b">>))}]

\* C8: for any directory state and any room data, upserting the same data a
\* second time (at the same or a later time) leaves every read operation's answer
\* as it was after the first upsert
C8_UpsertIdempotent ==
    \A data \in RoomDataInputs : \A t \in now..MaxTime :
        /\ LET once == addRoom(dir, data, NewRowId(dir, data.roomId), now) IN
           Observable(addRoom(once, data, NewRowId(once, data.roomId), t)) = Observable(once)
        /\ LET once == addRoomLegacy(dir, data, NewRowId(dir, data.roomId), now) IN
           Observable(addRoomLegacy(once, data, NewRowId(once, data.roomId), t))
               = Observable(once)

\* C8 (in particular): the directory never holds two rows with the same roomId
C8_RoomIdUnique ==
    \A a, b \in dir : a.roomId = b.roomId => a = b

\* C8 as one formula
C8_Idempotence == C8_UpsertIdempotent /\ C8_RoomIdUnique

\* a directory of two rooms, one private with a vault, where the clock has moved on
\* since the rows were created: every further upsert takes the update path
C8_Witness ==
    /\ Cardinality(dir) = 2
    /\ \E row \in dir : row.isPrivate /\ row.vaultId = 10 /\ row.createdAt < now

-----------------------------------------------------------------------------
(* Authentication: POST /auth/login and POST /auth/verify *)

\* an identity token as the verifier sees it: its format, its header, who signed it,
\* and the claims of its payload
GoodToken ==
    [parts |-> 3, kid |-> TRUE, signedBy |-> "google", alg |-> "RS256",
     iss |-> "accounts.google.com", aud |-> "client-id", expired |-> FALSE,
     sub |-> Str(<<"alice">>), email |-> Str(<<"alice@example.com">>),
     email_verified |-> TRUE]

\* one way in which a token differs from a good one
Defects ==
    {"parts", "kid", "signedBy", "alg", "iss", "aud", "expired", "sub", "email",
     "email_verified"}

WithDefect(token, defect) ==
    CASE defect = "parts" -> [token EXCEPT !.parts = 2]
      [] defect = "kid" -> [token EXCEPT !.kid = FALSE]
      [] defect = "signedBy" -> [token EXCEPT !.signedBy = "attacker"]
      [] defect = "alg" -> [token EXCEPT !.alg = "HS256"]
      [] defect = "iss" -> [token EXCEPT !.iss = "accounts.example.com"]
      [] defect = "aud" -> [token EXCEPT !.aud = "other-client"]
      [] defect = "expired" -> [token EXCEPT !.expired = TRUE]
      [] defect = "sub" -> [token EXCEPT !.sub = Absent]
      [] defect = "email" -> [token EXCEPT !.email = Absent]
      [] defect = "email_verified" -> [token EXCEPT !.email_verified = FALSE]

\* tokens with at most MaxDefects defects
RECURSIVE TokensWith(_)
TokensWith(n) ==
    IF n = 0 THEN {GoodToken}
    ELSE TokensWith(n - 1)
         \cup {WithDefect(t, d) : t \in TokensWith(n - 1), d \in Defects}

Tokens == TokensWith(MaxDefects)

\* req.body.jwt: missing, or a token
NoToken == [GoodToken EXCEPT !.parts = 0]

\* the key service of the identity provider answers, or cannot be reached
KeyOutcomes == {"ok", "unreachable"}

\* hashString(decoded.sub) as an address
AddressOf(sub) == <<"0x", "sha256:">> \o sub

NoUser == [present |-> FALSE, address |-> NoText, provider |-> "none", sub |-> NoText]

User(sub) == [present |-> TRUE, address |-> AddressOf(sub), provider |-> "google", sub |-> sub]

\* a service call that returned a user, or threw
Returned(user) == [threw |-> FALSE, message |-> NoText, user |-> user]
Threw(message) == [threw |-> TRUE, message |-> message, user |-> NoUser]

\* ZkLoginService.verifyGoogleJWT: the key of the header's kid is fetched and
\* jwt.verify checks signature, algorithm, expiry, issuer and audience
verifyGoogleJWT(token, keys) ==
    IF token.parts # 3 \/ ~token.kid THEN
        Threw(<<"JWT verification failed: ", "Invalid JWT: missing key ID">>)
    ELSE IF keys = "unreachable" THEN
        Threw(<<"JWT verification failed: ", "getaddrinfo ENOTFOUND">>)
    ELSE IF token.alg # "RS256" THEN
        Threw(<<"JWT verification failed: ", "invalid algorithm">>)
    ELSE IF token.signedBy # "google" THEN
        Threw(<<"JWT verification failed: ", "invalid signature">>)
    ELSE IF token.expired THEN
        Threw(<<"JWT verification failed: ", "jwt expired">>)
    ELSE IF token.aud # "client-id" THEN
        Threw(<<"JWT verification failed: ", "jwt audience invalid">>)
    ELSE IF token.iss \notin {"https://accounts.google.com", "accounts.google.com"} THEN
        Threw(<<"JWT verification failed: ", "jwt issuer invalid">>)
    ELSE Returned(NoUser)

\* ZkLoginService.authenticateSimplified on top of verifyGoogleJWT
authenticateVerified(token, keys) ==
    LET decoded == verifyGoogleJWT(token, keys) IN
    IF decoded.threw THEN Threw(<<"Authentication failed: ">> \o decoded.message)
    ELSE IF ~Truthy(token.sub) \/ ~Truthy(token.email) THEN
        Threw(<<"Authentication failed: ", "Invalid JWT payload: missing required fields">>)
    ELSE IF ~token.email_verified THEN
        Threw(<<"Authentication failed: ", "Email not verified">>)
    ELSE Returned(User(token.sub.text))

\* ZkLoginService.authenticateSimplified of services/zklogin.service.ts: the payload
\* is decoded and only its fields and expiry are looked at
authenticateSimplified(token, keys) ==
    IF token.parts # 3 THEN Threw(<<"Authentication failed">>)
    ELSE IF ~Truthy(token.sub) \/ ~Truthy(token.email) THEN Threw(<<"Authentication failed">>)
    ELSE IF token.expired THEN Threw(<<"Authentication failed">>)
    ELSE Returned(User(token.sub.text))

\* the two versions of the service
AuthServices == {"services/zklogin.service.ts", "part_002"}

Authenticate(service, token, keys) ==
    IF service = "part_002" THEN authenticateVerified(token, keys)
    ELSE authenticateSimplified(token, keys)

AuthJson(code, flag, user, message) ==
    [status |-> code, success |-> flag, digest |-> 0, error |-> message, user |-> user]

AuthAnswer(r, response) == Answer(r, response) /\ UNCHANGED world

PostAuthLogin ==
    \E token \in Tokens \cup {NoToken}, keys \in KeyOutcomes, service \in AuthServices :
        LET r == [ep |-> "auth/login", jwt |-> token, keys |-> keys, service |-> service]
            out == Authenticate(service, token, keys)
        IN
        IF token = NoToken THEN
            AuthAnswer(r, AuthJson(400, "absent", NoUser, <<"JWT token required">>))
        ELSE IF out.threw THEN
            AuthAnswer(r, AuthJson(401, "absent", NoUser,
                                   MessageOr(out.message, <<"Authentication failed">>)))
        ELSE AuthAnswer(r, AuthJson(200, "true", out.user, NoText))

PostAuthVerify ==
    \E token \in Tokens \cup {NoToken}, keys \in KeyOutcomes, service \in AuthServices :
        LET r == [ep |-> "auth/verify", jwt |-> token, keys |-> keys, service |-> service]
            out == Authenticate(service, token, keys)
        IN
        IF token = NoToken THEN
            AuthAnswer(r, AuthJson(400, "absent", NoUser, <<"JWT token required">>))
        ELSE IF out.threw THEN
            AuthAnswer(r, AuthJson(401, "false", NoUser, out.message))
        ELSE AuthAnswer(r, AuthJson(200, "true", out.user, NoText))

InitAuth == InitRelay

NextAuth == PostAuthLogin \/ PostAuthVerify

SpecAuth == InitAuth /\ [][NextAuth]_vars

\* the token was issued by the identity provider for this application to a subject
\* with a verified email, and its signature could be checked
Authentic(token, keys) ==
    /\ keys = "ok"
    /\ token.parts = 3 /\ token.kid
    /\ token.signedBy = "google" /\ token.alg = "RS256"
    /\ token.iss = "accounts.google.com"
    /\ token.aud = "client-id"
    /\ token.sub # Absent /\ token.email # Absent /\ token.email_verified

\* C13: authentication fails closed. POST /auth/login and POST /auth/verify return a
\* user only if the identity token was verified (signature, issuer, audience) and its
\* payload has a subject, an email and a true verified-email flag; a token that fails
\* verification, or a key service that cannot be reached, is answered 401 without a
\* user.
C13_AuthenticationFailsClosed ==
    (req.ep \in {"auth/login", "auth/verify"} /\ req.jwt # NoToken) =>
        /\ resp.user.present => Authentic(req.jwt, req.keys)
        /\ ~Authentic(req.jwt, req.keys) => (resp.status = 401 /\ ~resp.user.present)

-----------------------------------------------------------------------------
(* GET /room *)

\* RoomStoreService.getAllRooms of services/room-store.service.ts: no privacy flag
ToRoomDataLegacy(row) ==
    [found |-> TRUE, roomId |-> row.roomId, vaultId |-> row.vaultId,
     creatorAddress |-> row.creatorAddress, totalPeriods |-> row.totalPeriods,
     depositAmount |-> row.depositAmount, strategyId |-> row.strategyId,
     startTimeMs |-> row.startTimeMs, periodLengthMs |-> row.periodLengthMs,
     createdAt |-> row.createdAt, transactionDigest |-> row.transactionDigest]

getAllRoomsLegacy(d) ==
    {[i \in 1..Len(s) |-> ToRoomDataLegacy(s[i])] : s \in OrderedDesc(d)}

\* req.query.includePrivate
IncludePrivateInputs == {Absent, Str(<<"true">>), Str(<<"1">>)}

\* allRooms.filter(room => !room.isPrivate)
RECURSIVE FilterPublic(_)
FilterPublic(rooms) ==
    IF rooms = <<>> THEN <<>>
    ELSE LET flag == Get(Head(rooms), "isPrivate") IN
         (IF flag.defined /\ flag.value THEN <<>> ELSE <<Head(rooms)>>)
         \o FilterPublic(Tail(rooms))

ListJson(code, rooms, message) ==
    [status |-> code, success |-> IF code = 200 THEN "true" ELSE "absent", digest |-> 0,
     error |-> message, rooms |-> rooms, count |-> Len(rooms)]

\* the handler of GET /room over the rooms allRooms that getAllRooms returned
ListRooms(includePrivate, allRooms, queries) ==
    LET r == [ep |-> "room", includePrivate |-> includePrivate, queries |-> queries]
        filteredRooms == IF includePrivate = Str(<<"true">>) THEN allRooms
                         ELSE FilterPublic(allRooms)
        joinEvents == queryPlayerJoinedEvents(events, PLAYER_JOINED)
        depositEvents == queryDepositMadeEvents(events, DEPOSIT_MADE)
        roomsWithTotalDeposit ==
            [i \in 1..Len(filteredRooms) |->
                filteredRooms[i] @@
                [totalDeposit |-> RoomTotalDeposit(Canonical(filteredRooms[i].roomId),
                                                   joinEvents, depositEvents)]]
    IN
    /\ IF queries # "ok"
       THEN Answer(r, ListJson(500, <<>>, <<"fetch failed">>))
       ELSE Answer(r, ListJson(200, roomsWithTotalDeposit, NoText))
    /\ UNCHANGED world

GetRooms ==
    \E includePrivate \in IncludePrivateInputs, allRooms \in getAllRooms(dir),
       queries \in QueryOutcomes :
        ListRooms(includePrivate, allRooms, queries)

\* the table of services/room-store.service.ts has no privacy column
LegacyTable == \A row \in dir : ~row.isPrivate /\ row.passwordHash = NullHash

GetRoomsLegacy ==
    \E includePrivate \in IncludePrivateInputs, allRooms \in getAllRoomsLegacy(dir),
       queries \in QueryOutcomes :
        LegacyTable /\ ListRooms(includePrivate, allRooms, queries)

\* creations that store a Room with its Vault, in both versions of the store
ListedCreations ==
    {in \in CreateInputs(nextObject, nextObject) :
        /\ in.body \in {ValidBody(TRUE), ValidBody(FALSE)}
        /\ ~in.ledgerOut.throws
        /\ in.ledgerOut.scenario = Scenario(<<RoomType, VaultType>>, TRUE, "ok")
        /\ ~in.dbFails
        /\ ~in.startOut.throws}

CreateListed == \E in \in ListedCreations : RoomCreate(in)

CreateListedLegacy ==
    \E in \in ListedCreations : LegacyTable /\ RoomCreateWith(in, addRoomLegacy)

InitList == InitRelay

NextList ==
    \/ CreateListed
    \/ CreateListedLegacy
    \/ GetRooms
    \/ GetRoomsLegacy
    \/ Tick

SpecList == InitList /\ [][NextList]_vars

\* roomIds of the rooms a list response returned
ListedIds(response) == {response.rooms[i].roomId : i \in 1..Len(response.rooms)}

\* C14: GET /room without includePrivate=true never returns a room that was created
\* with isPrivate true: a room created private is stored private and stays so, the
\* default listing returns only rooms stored public, and the listing with
\* includePrivate=true returns every stored room.
C14_PrivateRoomsNotListed ==
    [][/\ (/\ req'.ep = "room/create" /\ resp'.status = 200
           /\ req'.body.isPrivate /\ resp'.roomId # UndefinedId)
          => \A row \in RowsOf(dir', resp'.roomId) : row.isPrivate
       /\ \A row \in dir : row.isPrivate => \A kept \in RowsOf(dir', row.roomId) : kept.isPrivate
       /\ (req'.ep = "room" /\ resp'.status = 200) =>
             IF req'.includePrivate = Str(<<"true">>)
             THEN ListedIds(resp') = {row.roomId : row \in dir'}
             ELSE ListedIds(resp') = {row.roomId : row \in {x \in dir' : ~x.isPrivate}}
      ]_vars

-----------------------------------------------------------------------------
(* GET /room/:id/participants *)

\* participantMap.set(player, entry): a new key goes last, a known key keeps its place
MapSet(map, entry) ==
    IF \E i \in 1..Len(map) : map[i].address = entry.address
    THEN [i \in 1..Len(map) |-> IF map[i].address = entry.address THEN entry ELSE map[i]]
    ELSE Append(map, entry)

\* joinEvents.data.filter(room_id === roomId).forEach(participantMap.set(...))
RECURSIVE ProcessJoins(_, _, _)
ProcessJoins(data, roomId, map) ==
    IF data = <<>> THEN map
    ELSE LET e == Head(data) IN
         ProcessJoins(Tail(data), roomId,
             IF e.room_id = roomId
             THEN MapSet(map, [address |-> e.player,
                               totalDeposit |-> OrZero(parseInt(e.amount)),
                               depositsCount |-> 1])
             ELSE map)

\* variant: a deposit of a player without an entry creates one
RECURSIVE ProcessDeposits_CreatesEntry(_, _, _)
ProcessDeposits_CreatesEntry(data, roomId, map) ==
    IF data = <<>> THEN map
    ELSE LET e == Head(data) IN
         ProcessDeposits_CreatesEntry(Tail(data), roomId,
             IF e.room_id # roomId THEN map
             ELSE IF \E i \in 1..Len(map) : map[i].address = e.player
             THEN [i \in 1..Len(map) |->
                     IF map[i].address = e.player
                     THEN [map[i] EXCEPT !.totalDeposit = @ + OrZero(parseInt(e.amount)),
                                         !.depositsCount = @ + 1]
                     ELSE map[i]]
             ELSE Append(map, [address |-> e.player,
                               totalDeposit |-> OrZero(parseInt(e.amount)),
                               depositsCount |-> 1]))

\* depositEvents.data.filter(room_id === roomId).forEach(... if (participantMap.has(player)))
RECURSIVE ProcessDeposits(_, _, _)
ProcessDeposits(data, roomId, map) ==
    IF data = <<>> THEN map
    ELSE LET e == Head(data) IN
         ProcessDeposits(Tail(data), roomId,
             IF e.room_id = roomId
             THEN [i \in 1..Len(map) |->
                     IF map[i].address = e.player
                     THEN [map[i] EXCEPT !.totalDeposit = @ + OrZero(parseInt(e.amount)),
                                         !.depositsCount = @ + 1]
                     ELSE map[i]]
             ELSE map)

\* Array.from(participantMap.values()).map(p => ({ address, amount, depositsCount }))
Participants(roomId, joinEvents, depositEvents) ==
    LET map == ProcessDeposits(depositEvents.data, roomId,
                               ProcessJoins(joinEvents.data, roomId, <<>>))
    IN  [i \in 1..Len(map) |->
            [address |-> map[i].address, amount |-> map[i].totalDeposit,
             depositsCount |-> map[i].depositsCount]]

ParticipantsJson(code, participants, message) ==
    [status |-> code, success |-> IF code = 200 THEN "true" ELSE "absent", digest |-> 0,
     error |-> message, participants |-> participants, count |-> Len(participants)]

\* ids asked for: two rooms as the ledger writes them, and one without the prefix
ParticipantIds == {Canonical(1), Canonical(3), IdText(1, FALSE, 64)}

GetRoomParticipants ==
    \E roomId \in ParticipantIds, queries \in QueryOutcomes :
        LET joinEvents == queryPlayerJoinedEvents(events, PLAYER_JOINED)
            depositEvents == queryDepositMadeEvents(events, DEPOSIT_MADE)
            r == [ep |-> "room/:id/participants", id |-> roomId, queries |-> queries,
                  joinEvents |-> joinEvents, depositEvents |-> depositEvents]
        IN
        /\ IF queries # "ok"
           THEN Answer(r, ParticipantsJson(500, <<>>, <<"fetch failed">>))
           ELSE Answer(r, ParticipantsJson(200,
                              Participants(roomId, joinEvents, depositEvents), NoText))
        /\ UNCHANGED world

\* PlayerJoined and DepositMade events of two rooms and three players; the player of
\* the last deposit never joined
JoinInputs ==
    { Event(11, 1, "0xA", <<"5", "0", "0", "0", "0", "0">>),
      Event(12, 1, "0xB", <<"2", "5", "0", "0", "0", "0">>),
      Event(13, 3, "0xA", <<"1", "0", "0", "0", "0", "0", "0">>) }

DepositInputs ==
    { Event(21, 1, "0xA", <<"2", "5", "0", "0", "0", "0">>),
      Event(22, 1, "0xA", <<"5", "0", "0", "0", "0", "0">>),
      Event(23, 1, "0xC", <<"1", "0", "0", "0", "0", "0", "0">>) }

\* the event logs as the ledger delivers them: in any order, an event possibly more
\* than once
RECURSIVE Logs(_, _)
Logs(inputs, n) ==
    IF n = 0 THEN {<<>>}
    ELSE Logs(inputs, n - 1)
         \cup {Append(log, e) : log \in Logs(inputs, n - 1), e \in inputs}

InitParticipants ==
    /\ Idle
    /\ objects = LedgerRoom(1, 1, 1000000, 250000) \o LedgerRoom(1, 0, 0, 0)
    /\ nextObject = 5
    /\ strategies = AIService_strategies
    /\ dir = StoredRoom(1, 2, 1, 1)
    /\ \E joins \in Logs(JoinInputs, MaxLog), deposits \in Logs(DepositInputs, MaxLog) :
          events = [join |-> joins, deposit |-> deposits]

NextParticipants ==
    \/ GetRoomParticipants
    \/ GetRoomById

SpecParticipants == InitParticipants /\ [][NextParticipants]_vars

ParticipantsAnswered ==
    /\ req.ep = "room/:id/participants"
    /\ resp.status = 200

\* a page with every event kept at its first delivery only
RECURSIVE OnceFrom(_, _)
OnceFrom(data, seen) ==
    IF data = <<>> THEN <<>>
    ELSE IF Head(data).id \in seen THEN OnceFrom(Tail(data), seen)
    ELSE <<Head(data)>> \o OnceFrom(Tail(data), seen \cup {Head(data).id})

Once(page) == [data |-> OnceFrom(page.data, {})]

\* C16: aggregation tolerates duplicate delivery. When an event (same transaction
\* digest and event sequence) is delivered more than once, totalDeposit(roomId) and the
\* participants' totalDeposit and depositsCount are what they are when every event is
\* delivered once.
C16_DuplicateDeliveryTolerated ==
    /\ \A id \in ParticipantIds :
          LET fetched == queryRoomEvents(events)
              once == [joinEvents |-> Once(fetched.joinEvents),
                       depositEvents |-> Once(fetched.depositEvents)]
          IN  calculateRoomTotalDeposit(id, fetched) = calculateRoomTotalDeposit(id, once)
    /\ ParticipantsAnswered
       => resp.participants
              = Participants(req.id, Once(req.joinEvents), Once(req.depositEvents))

\* the delivered events of a page that belong to room id
OfRoom(page, id) == {i \in 1..Len(page.data) : page.data[i].room_id = id}

\* the players with a PlayerJoined event for room id
Joined(page, id) == {page.data[i].player : i \in OfRoom(page, id)}

\* the amount of the player's PlayerJoined event for room id
JoinUnits(page, id, player) ==
    LET i == CHOOSE j \in OfRoom(page, id) : page.data[j].player = player
    IN  AmountMeaning[page.data[i].amount]

\* the delivered DepositMade events of room id and player
DepositsOf(page, id, player) == {i \in OfRoom(page, id) : page.data[i].player = player}

DepositUnits(page, id, player) ==
    SumOver(DepositsOf(page, id, player),
            [i \in DepositsOf(page, id, player) |-> AmountMeaning[page.data[i].amount]])

\* C17: participants(roomId) returns exactly one entry per distinct player address
\* that has a PlayerJoined event for roomId; the entry's total is the amount of its
\* join plus the amounts of every DepositMade event of that room and player; a
\* DepositMade event whose player has no PlayerJoined event creates or changes no entry.
C17_ParticipantsFromJoins ==
    ParticipantsAnswered =>
        LET players == Joined(req.joinEvents, req.id)
            entries == resp.participants
        IN  /\ Len(entries) = Cardinality(players)
            /\ {entries[i].address : i \in 1..Len(entries)} = players
            /\ resp.count = Cardinality(players)
            /\ \A i \in 1..Len(entries) :
                  /\ entries[i].amount
                        = JoinUnits(req.joinEvents, req.id, entries[i].address)
                          + DepositUnits(req.depositEvents, req.id, entries[i].address)
                  /\ entries[i].depositsCount
                        = 1 + Cardinality(DepositsOf(req.depositEvents, req.id,
                                                     entries[i].address))

\* two players joined the room asked for, one of them deposited, and a player who
\* never joined deposited too
C17_Witness ==
    /\ ParticipantsAnswered
    /\ Len(resp.participants) = 2
    /\ \E i \in 1..Len(resp.participants) : resp.participants[i].depositsCount = 2
    /\ \E i \in OfRoom(req.depositEvents, req.id) :
          req.depositEvents.data[i].player \notin Joined(req.joinEvents, req.id)

\* the page the aggregation is to use for a query: empty when the query failed
JoinsKnown(r) == IF r.queries = "joinRejects" THEN [data |-> <<>>] ELSE r.joinEvents

DepositsKnown(r) == IF r.queries = "depositRejects" THEN [data |-> <<>>] ELSE r.depositEvents

\* C18: if one event query fails with a ledger RPC error, the aggregation treats that
\* query as an empty result and still answers: when only the DepositMade query fails,
\* participants(roomId) and totalDeposit(roomId) are the values derived from the
\* PlayerJoined events, instead of a failed read or dropped joins.
C18_FailedQueryTreatedAsEmpty ==
    /\ (req.ep = "room/:id/participants" /\ req.queries # "ok")
       => /\ resp.status = 200
          /\ resp.participants = Participants(req.id, JoinsKnown(req), DepositsKnown(req))
    /\ (req.ep = "room/:id" /\ req.queries # "ok" /\ resp.status = 200)
       => resp.room.totalDeposit
              = RoomTotalDeposit(req.id, JoinsKnown(req), DepositsKnown(req))

\* the positions in the request's operations of the start_room submissions and of
\* the completed directory upserts
StartsIssued ==
    {i \in 1..Len(trace) :
        trace[i].op = "submit" /\ trace[i].target = "money_race_v2::start_room"}

UpsertsDone == {i \in 1..Len(trace) : trace[i].op = "upsert" /\ trace[i].ok}

\* the submissions of the request to the ledger, by move call
SubmissionsOf(target) == {i \in 1..Len(rpc) : rpc[i].tx.target = target}

\* C19: in POST /room/create the start-room call is issued only after the room's
\* directory upsert has completed and at most once per request, and its outcome never
\* changes the response: whether it succeeds, executes with a failure status or throws,
\* the response is 200 with the success flag and digest of the create-room transaction
\* and the roomId and vaultId of the created Room and Vault, and the directory holds
\* the room's record.
C19_AutoStartAfterUpsertBestEffort ==
    req.ep = "room/create" =>
        /\ Cardinality(StartsIssued) <= 1
        /\ Cardinality(SubmissionsOf("money_race_v2::start_room")) <= 1
        /\ \A i \in StartsIssued : \E j \in UpsertsDone : j < i
        /\ StartsIssued # {} =>
              LET created == CHOOSE i \in SubmissionsOf("money_race_v2::create_room") : TRUE
              IN  /\ Cardinality(SubmissionsOf("money_race_v2::create_room")) = 1
                  /\ resp.status = 200
                  /\ resp.success = BoolText(rpc[created].effects.status = "success")
                  /\ resp.digest = rpc[created].issued
                  /\ resp.error = NoText
                  /\ objects[resp.roomId].type = RoomType
                  /\ IF \E k \in 1..Len(rpc[created].effects.created) :
                           objects[rpc[created].effects.created[k].objectId].type = VaultType
                     THEN objects[resp.vaultId].type = VaultType
                     ELSE resp.vaultId = UndefinedId
                  /\ \E row \in dir :
                        /\ row.roomId = resp.roomId
                        /\ row.transactionDigest = resp.digest
                        /\ resp.vaultId # UndefinedId => row.vaultId = resp.vaultId

\* a private room was created and recorded, and its auto-start threw
C19_Witness ==
    /\ req.ep = "room/create"
    /\ req.body.isPrivate
    /\ \E i \in StartsIssued : ~trace[i].ok
    /\ resp.status = 200
    /\ resp.success = "true"
    /\ \E row \in dir : row.roomId = resp.roomId /\ row.vaultId = resp.vaultId

\* the create_room transaction of the request executed on the ledger with success
CreatedOnLedger(in) == ~in.ledgerOut.throws /\ in.ledgerOut.effects.status = "success"

\* what the discovery classifies among the objects the transaction created
Classified(in) ==
    ExtractIds(in.ledgerOut.effects.created, ObjectsAfter(in.ledgerOut, in.body),
               in.ledgerOut.scenario.fetch)

Unclassified(in) ==
    Classified(in).roomId = UndefinedId \/ Classified(in).vaultId = UndefinedId

\* C20: when the create-room transaction succeeds on the ledger but the Room id or
\* the Vault id cannot be classified (fewer than two created objects, or no created
\* object of the type after the fetch fallback), POST /room/create returns the valid
\* digest with the unclassified id absent, and the answer differs both from a full
\* success (both ids present) and from a full failure (an error answer, or success
\* not true).
C20_PartialSuccessSurfaced ==
    [][\A in \in CreateInputs(nextObject, nextObject) :
          (RoomCreate(in) /\ CreatedOnLedger(in) /\ Unclassified(in))
          => /\ resp'.status = 200
             /\ resp'.error = NoText
             /\ resp'.success = "true"
             /\ resp'.digest = in.ledgerOut.digest
             /\ resp'.digest # 0
             /\ resp'.roomId = Classified(in).roomId
             /\ resp'.vaultId = Classified(in).vaultId]_vars

\* the create_room submissions of a request by their ledger execution status
CreateSubmissions(calls, status) ==
    {i \in 1..Len(calls) :
        /\ calls[i].tx.target = "money_race_v2::create_room"
        /\ ~calls[i].throws
        /\ calls[i].effects.status = status}

\* C21: a directory record is created only by a successful create-room transaction:
\* every record a request writes carries the digest of a create-room transaction of
\* that request whose ledger execution status was success, and a create-room
\* transaction that executed with a failure status leads to no directory write and no
\* auto-start call.
C21_RecordsOnlyFromSuccessfulCreate ==
    [][/\ \A row \in dir' \ dir :
            /\ req'.ep = "room/create"
            /\ \E i \in CreateSubmissions(rpc', "success") :
                  rpc'[i].issued = row.transactionDigest
       /\ (req'.ep = "room/create" /\ CreateSubmissions(rpc', "failure") # {})
          => /\ dir' = dir
             /\ \A i \in 1..Len(rpc') : rpc'[i].tx.target # "money_race_v2::start_room"
             /\ \A i \in 1..Len(trace') : trace'[i].op # "upsert"]_vars

\* a create-room transaction executed with a failure status while the directory
\* holds the record of an earlier, successful one
C21_Witness ==
    /\ req.ep = "room/create"
    /\ CreateSubmissions(rpc, "failure") # {}
    /\ resp.status = 200
    /\ resp.success = "false"
    /\ \E row \in dir : row.transactionDigest # 0

-----------------------------------------------------------------------------
(* GET /player/:id *)

\* suiClient.getObject({ id, options: { showContent: true } }): the call rejects, or
\* answers with data for an object the ledger holds and without data otherwise
GetObjectOutcomes == {"answers", "rejects"}

ObjectData(objs, id, out) ==
    IF out = "rejects" THEN [threw |-> TRUE, data |-> Undefined]
    ELSE IF id = Canonical(id.hex) /\ id.hex \in DOMAIN objs
    THEN [threw |-> FALSE, data |-> [defined |-> TRUE, value |-> objs[id.hex].type]]
    ELSE [threw |-> FALSE, data |-> Undefined]

\* RelayerService.getPlayerPosition: return object.data?.content
getPlayerPosition(objs, positionId, out) ==
    LET object == ObjectData(objs, positionId, out)
    IN  IF object.threw
        THEN [threw |-> TRUE, message |-> <<"Player position not found">>,
              value |-> Undefined]
        ELSE [threw |-> FALSE, message |-> NoText, value |-> object.data]

\* utils/response sendNotFound
sendNotFound(resource) == sendError(<<resource, " not found">>, 404)

\* the responses of GET /player/:id: sendSuccess(res, { position }), sendNotFound
PlayerJson(position) ==
    [status |-> 200, success |-> "true", digest |-> 0, error |-> NoText,
     position |-> position]

PlayerError(response) == response @@ [position |-> Undefined]

\* ids of positions asked for: an object the ledger holds and one it does not
PositionIds == {Canonical(1), Canonical(2), Canonical(9)}

GetPlayerById ==
    \E id \in PositionIds, out \in GetObjectOutcomes :
        LET positionData == getPlayerPosition(objects, id, out)
            r == [ep |-> "player/:id", id |-> id, object |-> ObjectData(objects, id, out)]
        IN
        /\ IF positionData.threw
           THEN Answer(r, PlayerError(sendNotFound("Player position")))
           ELSE Answer(r, PlayerJson(positionData.value))
        /\ UNCHANGED world

InitLookup == InitYield

NextLookup ==
    \/ GetRoomById
    \/ GetPlayerById
    \/ Tick

SpecLookup == InitLookup /\ [][NextLookup]_vars

\* C23: a requested id that does not resolve to an object on the ledger always yields
\* the not-found outcome (404), never a success and never a validation error: for
\* GET /player/:id when the ledger returns no object data for the position id, and for
\* GET /room/:id when the ledger returns no object data for the room id.
C23_UnresolvedIdIsNotFound ==
    /\ (req.ep = "player/:id" /\ ~req.object.data.defined)
       => (resp.status = 404 /\ resp.success # "true")
    /\ (/\ req.ep = "room/:id"
        /\ req.id.length >= MIN_ID_LENGTH
        /\ Normalized(req.id).hex \notin DOMAIN objects)
       => (resp.status = 404 /\ resp.success # "true")

-----------------------------------------------------------------------------
(* Recommendation Engine: AIService behind POST /ai/recommend and            *)
(* GET /ai/strategies, GET /ai/strategies/:id                               *)

\* A prompt text, by what the service tests on it: the length of the trimmed text,
\* whether it has a letter, its longest run of consonants, and which of the words the
\* service searches for occur in it.
PromptWords == {"invest", "stable", "safe", "aggressive", "balanced", "retire"}

Prompt(length, letters, consonantRun, words) ==
    [length |-> length, letters |-> letters, consonantRun |-> consonantRun, words |-> words]

Prompts ==
    {Prompt(4, TRUE, 2, {"safe"}),
     Prompt(12, FALSE, 0, {}),
     Prompt(14, TRUE, 8, {}),
     Prompt(20, TRUE, 2, {}),
     Prompt(20, TRUE, 2, {"retire"}),
     Prompt(34, TRUE, 3, {}),
     Prompt(34, TRUE, 3, {"retire", "balanced"}),
     Prompt(24, TRUE, 2, {"invest"}),
     Prompt(24, TRUE, 2, {"invest", "safe"}),
     Prompt(24, TRUE, 2, {"stable"}),
     Prompt(24, TRUE, 2, {"aggressive"}),
     Prompt(24, TRUE, 2, {"aggressive", "safe", "retire"})}

MIN_PROMPT_LENGTH == 10
GIBBERISH_RUN == 7
SHORT_PROMPT_LENGTH == 30

meaningfulWords == {"invest", "stable", "aggressive"}

isValidPrompt(text) ==
    IF text.length < MIN_PROMPT_LENGTH
    THEN [valid |-> FALSE, reason |-> <<"Prompt is too short.">>]
    ELSE IF ~text.letters
    THEN [valid |-> FALSE, reason |-> <<"Invalid prompt.">>]
    ELSE IF text.consonantRun >= GIBBERISH_RUN
    THEN [valid |-> FALSE, reason |-> <<"Prompt cannot be understood.">>]
    ELSE IF text.words \cap meaningfulWords = {} /\ text.length < SHORT_PROMPT_LENGTH
    THEN [valid |-> FALSE, reason |-> <<"I don't understand your request.">>]
    ELSE [valid |-> TRUE, reason |-> NoText]

lowRiskKeywords == {"safe", "stable"}
highRiskKeywords == {"aggressive"}
balancedKeywords == {"balanced", "stable"}

parseIntent(text) ==
    LET goal == IF "retire" \in text.words THEN "retirement" ELSE "general investment" IN
    IF text.words \cap lowRiskKeywords # {}
    THEN [riskTolerance |-> "low", goal |-> goal, keywords |-> {"safe"}]
    ELSE IF text.words \cap highRiskKeywords # {}
    THEN [riskTolerance |-> "high", goal |-> goal, keywords |-> {"aggressive"}]
    ELSE IF text.words \cap balancedKeywords # {}
    THEN [riskTolerance |-> "medium", goal |-> goal, keywords |-> {"balance"}]
    ELSE [riskTolerance |-> "medium", goal |-> goal, keywords |-> {}]

\* Array.prototype.findIndex: the first index whose strategy has the id, 0 for -1
findIndex(table, id) ==
    IF \E i \in 1..Len(table) : table[i].id = id
    THEN CHOOSE i \in 1..Len(table) :
            table[i].id = id /\ \A j \in 1..(i - 1) : table[j].id # id
    ELSE 0

FallbackReasoning(recommendedId) == [defined |-> TRUE, value |-> recommendedId]

fallbackRecommendedId(intent) ==
    IF intent.riskTolerance = "low" \/ "safe" \in intent.keywords THEN 1
    ELSE IF intent.riskTolerance = "high" \/ "aggressive" \in intent.keywords THEN 3
    ELSE 2

\* A result of getRecommendations together with the shared table as the call leaves it
Recommendation(list, intent, table) ==
    [threw |-> FALSE, message |-> NoText, strategies |-> list, parsedIntent |-> intent,
     table |-> table]

RecommendationError(message, table) ==
    [threw |-> TRUE, message |-> message, strategies |-> <<>>,
     parsedIntent |-> [riskTolerance |-> "none", goal |-> "none"], table |-> table]

\* the fallback written to mark the recommendation on the shared strategy objects
getFallbackRecommendations_InPlace(table, prompt) ==
    LET intent == parseIntent(prompt)
        recommendedId == fallbackRecommendedId(intent)
        recommendedIndex == findIndex(table, recommendedId)
        marked == IF recommendedIndex # 0
                  THEN [table EXCEPT ![recommendedIndex].recommended = TRUE,
                                     ![recommendedIndex].reasoning =
                                         FallbackReasoning(recommendedId)]
                  ELSE table
    IN Recommendation(marked, [riskTolerance |-> intent.riskTolerance, goal |-> intent.goal],
                      marked)

getFallbackRecommendations(table, prompt) ==
    LET intent == parseIntent(prompt)
        copies == [i \in 1..Len(table) |-> [table[i] EXCEPT !.recommended = FALSE]]
        recommendedId == fallbackRecommendedId(intent)
        recommendedIndex == findIndex(table, recommendedId)
        list == IF recommendedIndex # 0
                THEN [copies EXCEPT ![recommendedIndex].recommended = TRUE,
                                    ![recommendedIndex].reasoning =
                                        FallbackReasoning(recommendedId)]
                ELSE copies
    IN Recommendation(list, [riskTolerance |-> intent.riskTolerance, goal |-> intent.goal],
                      table)

\* What the text-generation API does for one request.  A completion's content is a text,
\* possibly inside a ``` fence, whose body is not JSON ("garbage"), the JSON null, or a
\* JSON object with the members error, recommendedStrategyId and reasoning.
AnsweredIds == {0, 1, 2, 3, 4}

JsonBodies ==
    {[kind |-> "garbage", error |-> FALSE, recommendedStrategyId |-> Undefined,
      reasoning |-> Undefined],
     [kind |-> "null", error |-> FALSE, recommendedStrategyId |-> Undefined,
      reasoning |-> Undefined],
     [kind |-> "object", error |-> FALSE, recommendedStrategyId |-> Undefined,
      reasoning |-> Undefined],
     [kind |-> "object", error |-> TRUE, recommendedStrategyId |-> [defined |-> TRUE, value |-> 2],
      reasoning |-> Undefined]}
    \cup {[kind |-> "object", error |-> FALSE,
           recommendedStrategyId |-> [defined |-> TRUE, value |-> id],
           reasoning |-> [defined |-> TRUE, value |-> 10 + id]] : id \in AnsweredIds}
    \cup {[kind |-> "object", error |-> FALSE,
           recommendedStrategyId |-> [defined |-> TRUE, value |-> 3],
           reasoning |-> Undefined]}

NoCompletion == [fenced |-> FALSE, body |-> CHOOSE b \in JsonBodies : b.kind = "garbage"]

ApiOutcomes ==
    {[kind |-> k, content |-> NoCompletion] :
        k \in {"unconfigured", "unreachable", "httpError", "noChoices"}}
    \cup {[kind |-> "completion", content |-> [fenced |-> f, body |-> b]] :
            f \in BOOLEAN, b \in JsonBodies}

\* AIService.chat: the content of the first choice, or a throw
chat(api) ==
    IF api.kind = "completion"
    THEN [threw |-> FALSE, value |-> api.content]
    ELSE [threw |-> TRUE, value |-> NoCompletion]

\* the opening and the closing fence are removed, the body is what is parsed
cleanResponse(aiResponse) == aiResponse.body

\* JSON.parse, then the reads of parsed.error and parsed.recommendedStrategyId
JSONparse(text) ==
    IF text.kind \in {"garbage", "null"}
    THEN [threw |-> TRUE, value |-> text]
    ELSE [threw |-> FALSE, value |-> text]

VALID_STRATEGY_IDS == {1, 2, 3}

\* getRecommendations without the check of the strategy id the API answered
getRecommendations_AnyId(table, prompt, api) ==
    LET validation == isValidPrompt(prompt)
        aiResponse == chat(api)
        parsed == JSONparse(cleanResponse(aiResponse.value))
        answered == parsed.value.recommendedStrategyId
    IN
    IF ~validation.valid THEN RecommendationError(validation.reason, table)
    ELSE IF api.kind = "unconfigured" THEN getFallbackRecommendations(table, prompt)
    ELSE IF aiResponse.threw \/ parsed.threw \/ parsed.value.error
    THEN getFallbackRecommendations(table, prompt)
    ELSE Recommendation(
            [i \in 1..Len(table) |->
                [table[i] EXCEPT
                    !.recommended = (answered.defined /\ table[i].id = answered.value),
                    !.reasoning = IF answered.defined /\ table[i].id = answered.value
                                  THEN parsed.value.reasoning
                                  ELSE Undefined]],
            [riskTolerance |-> "answered", goal |-> "answered"],
            table)

getRecommendations(table, prompt, api) ==
    LET validation == isValidPrompt(prompt)
        aiResponse == chat(api)
        parsed == JSONparse(cleanResponse(aiResponse.value))
        answered == parsed.value.recommendedStrategyId
    IN
    IF ~validation.valid THEN RecommendationError(validation.reason, table)
    ELSE IF api.kind = "unconfigured" THEN getFallbackRecommendations(table, prompt)
    ELSE IF aiResponse.threw \/ parsed.threw \/ parsed.value.error
    THEN getFallbackRecommendations(table, prompt)
    ELSE IF ~(answered.defined /\ answered.value \in VALID_STRATEGY_IDS)
    THEN getFallbackRecommendations(table, prompt)
    ELSE Recommendation(
            [i \in 1..Len(table) |->
                [table[i] EXCEPT
                    !.recommended = (table[i].id = answered.value),
                    !.reasoning = IF table[i].id = answered.value
                                  THEN parsed.value.reasoning
                                  ELSE Undefined]],
            [riskTolerance |-> "answered", goal |-> "answered"],
            table)

\* getStrategyById returns the shared strategy object itself, getAllStrategies copies
getStrategyById(table, id) ==
    IF findIndex(table, id) = 0 THEN Undefined
    ELSE [defined |-> TRUE, value |-> table[findIndex(table, id)]]

getAllStrategies(table) == [i \in 1..Len(table) |-> table[i]]

\* the bodies of the three endpoints: {success, data} or {success, error}
AdviceJson(base, list, strategy) ==
    [status |-> base.status, success |-> base.success, digest |-> 0, error |-> base.error,
     strategies |-> list, strategy |-> strategy]

AdviceOk == [status |-> 200, success |-> "true", error |-> NoText]

INTERNAL_ERROR == 500

PostAiRecommend ==
    \E prompt \in Prompts, api \in ApiOutcomes :
        LET recommendations == getRecommendations(strategies, prompt, api)
            r == [ep |-> "ai/recommend", prompt |-> prompt, api |-> api]
        IN
        /\ IF recommendations.threw
           THEN Answer(r, AdviceJson(sendError(recommendations.message, INTERNAL_ERROR),
                                     <<>>, Undefined))
           ELSE Answer(r, AdviceJson(AdviceOk, recommendations.strategies, Undefined))
        /\ strategies' = recommendations.table
        /\ UNCHANGED <<dir, now, objects, nextObject, events>>

GetAiStrategies ==
    /\ Answer([ep |-> "ai/strategies"], AdviceJson(AdviceOk, getAllStrategies(strategies),
                                                   Undefined))
    /\ UNCHANGED world

\* the :id path parameter: a decimal number, or a text parseInt turns into NaN
StrategyIdParams ==
    {[numeric |-> TRUE, value |-> id] : id \in AnsweredIds}
    \cup {[numeric |-> FALSE, value |-> 0]}

GetAiStrategyById ==
    \E idParam \in StrategyIdParams :
        LET r == [ep |-> "ai/strategies/:id", id |-> idParam]
            strategy == getStrategyById(strategies, idParam.value)
        IN
        /\ IF ~idParam.numeric
           THEN Answer(r, AdviceJson(sendValidationError(<<"Invalid strategy ID">>),
                                     <<>>, Undefined))
           ELSE IF ~strategy.defined
           THEN Answer(r, AdviceJson(sendNotFound("Strategy"), <<>>, Undefined))
           ELSE Answer(r, AdviceJson(AdviceOk, <<>>, strategy))
        /\ UNCHANGED world

InitAdvice == InitRelay

NextAdvice ==
    \/ PostAiRecommend
    \/ GetAiStrategies
    \/ GetAiStrategyById

SpecAdvice == InitAdvice /\ [][NextAdvice]_vars

\* the annual rate of GET /room/user/:address/joined, in percent
JoinedApyPercent(dbStrategyId, chainStrategyId) ==
    LET strategyId == IF dbStrategyId # 0 THEN dbStrategyId
                      ELSE IF chainStrategyId # 0 THEN chainStrategyId ELSE 0
    IN IF strategyId = 1 THEN 8 ELSE IF strategyId = 2 THEN 15 ELSE 4

\* C24: for every strategy id a room can be created with, the annual rate the yield
\* accrual applies to that id equals the expected return of the recommendation
\* engine's strategy with the same id, in GET /room/:id and in
\* GET /room/user/:address/joined.
C24_RateEqualsExpectedReturn ==
    (req.ep = "ai/strategies/:id" /\ resp.status = 200)
    => /\ ApyPercent(resp.strategy.value.id) = resp.strategy.value.expectedReturn
       /\ JoinedApyPercent(resp.strategy.value.id, resp.strategy.value.id)
              = resp.strategy.value.expectedReturn

Recommended(list) == {i \in 1..Len(list) : list[i].recommended}

\* the API outcomes for which the local fallback has to answer
ApiFailed(api) ==
    \/ api.kind # "completion"
    \/ api.content.body.kind # "object"
    \/ ~api.content.body.recommendedStrategyId.defined
    \/ api.content.body.recommendedStrategyId.value \notin {1, 2, 3}

\* C25: for any prompt that passes validation the recommendation request is answered
\* with a result and never fails: when the text-generation API is unconfigured,
\* unreachable, answers an error, answers unparsable content or answers a strategy id
\* outside {1, 2, 3}, the result is the one of the local fallback; and every result
\* lists the three strategies with exactly one of them flagged recommended.
C25_AlwaysARecommendation ==
    (req.ep = "ai/recommend" /\ isValidPrompt(req.prompt).valid)
    => /\ resp.status = 200
       /\ resp.success = "true"
       /\ Len(resp.strategies) = 3
       /\ Cardinality(Recommended(resp.strategies)) = 1
       /\ ApiFailed(req.api)
          => resp.strategies =
                 getFallbackRecommendations(AIService_strategies, req.prompt).strategies

C25_Witness ==
    /\ req.ep = "ai/recommend"
    /\ isValidPrompt(req.prompt).valid
    /\ req.api.kind = "completion"
    /\ req.api.content.body.recommendedStrategyId.defined
    /\ req.api.content.body.recommendedStrategyId.value = 4
    /\ resp.status = 200
    /\ Cardinality(Recommended(resp.strategies)) = 1

\* C30: after any sequence of recommendation requests the shared strategy table is
\* unchanged: every strategy of the table, and every strategy GET /ai/strategies and
\* GET /ai/strategies/:id return, has recommended = false and no reasoning.
C30_SharedTableUnchanged ==
    /\ strategies = AIService_strategies
    /\ \A i \in 1..Len(strategies) :
          ~strategies[i].recommended /\ ~strategies[i].reasoning.defined
    /\ req.ep = "ai/strategies"
       => /\ Len(resp.strategies) = 3
          /\ \A i \in 1..Len(resp.strategies) :
                ~resp.strategies[i].recommended /\ ~resp.strategies[i].reasoning.defined
    /\ (req.ep = "ai/strategies/:id" /\ resp.status = 200)
       => ~resp.strategy.value.recommended /\ ~resp.strategy.value.reasoning.defined

C30_Witness ==
    /\ req.ep = "ai/recommend"
    /\ resp.status = 200
    /\ \E i \in Recommended(resp.strategies) : resp.strategies[i].reasoning.defined
    /\ \A i \in 1..Len(strategies) : ~strategies[i].recommended

-----------------------------------------------------------------------------
(* The yield checkpoint of a directory record *)

\* the values a checkpoint write carries: an accrued amount and the time of the write
CheckpointYields == {1, 2}

StoreUpdateYield ==
    \E row \in dir, accumulatedYield \in CheckpointYields :
        /\ dir' = updateYield(dir, row.roomId, accumulatedYield, now)
        /\ UNCHANGED <<req, resp, relay, rpc, signs, trace, now, objects, nextObject, events,
                       strategies>>

InitCheckpoint == InitRelay

NextCheckpoint ==
    \/ StoreAddRoom
    \/ StoreAddRoomLegacy
    \/ StoreUpdateYield
    \/ Tick

SpecCheckpoint == InitCheckpoint /\ [][NextCheckpoint]_vars

Checkpoint(row) == <<row.accumulatedYield, row.lastYieldUpdateMs>>

\* the step is a checkpoint write for roomId and nothing else
CheckpointWrite(roomId) ==
    /\ \A row \in dir : row.roomId # roomId => row \in dir'
    /\ \A row \in dir : row.roomId = roomId
          => \E after \in dir' :
                after = [row EXCEPT !.accumulatedYield = after.accumulatedYield,
                                    !.lastYieldUpdateMs = after.lastYieldUpdateMs]
    /\ Cardinality(dir') = Cardinality(dir)

\* C26: the yield checkpoint of a record is changed only by a checkpoint write:
\* every step that upserts a room (for a new or an existing roomId) and every other
\* step leaves accumulatedYield and lastYieldUpdateMs of every existing record
\* unchanged, and a step that changes one room's checkpoint changes nothing else in
\* that record and no field of any other room's record.
C26_CheckpointFrame ==
    [][\A row \in dir :
          \E after \in dir' :
             /\ after.roomId = row.roomId
             /\ Checkpoint(after) # Checkpoint(row) => CheckpointWrite(row.roomId)]_vars

C26_Witness ==
    \E row \in dir, other \in dir :
        /\ row.roomId # other.roomId
        /\ row.accumulatedYield = 2
        /\ row.lastYieldUpdateMs > 1
        /\ row.createdAt < row.lastYieldUpdateMs
        /\ row.transactionDigest # other.transactionDigest
        /\ other.accumulatedYield = 1

-----------------------------------------------------------------------------
(* The digest of an executed create_room transaction *)

\* C27: whenever the create_room transaction of a POST /room/create was executed on
\* the ledger (the relay returned a digest), the response is a 200 that carries that
\* digest, whatever happens afterwards: a failing object fetch during discovery, a
\* failing directory upsert or a failing automatic start.
C27_DigestReturnedOnceExecuted ==
    req.ep = "room/create"
    => \A i \in CreateSubmissions(rpc, "success") \cup CreateSubmissions(rpc, "failure") :
          /\ resp.status = 200
          /\ resp.digest = rpc[i].issued
          /\ resp.digest # 0

-----------------------------------------------------------------------------
(* GET /room/:id/history and the three views over the event logs *)

HISTORY_LIMIT == 100

HistoryEntry(type, event) ==
    [type |-> type, player |-> event.player, amount |-> OrZero(parseInt(event.amount)),
     timestamp |-> event.id, txDigest |-> event.id]

\* data.filter(room_id === roomId).map(...)
RECURSIVE FilterMap(_, _, _)
FilterMap(data, roomId, type) ==
    IF data = <<>> THEN <<>>
    ELSE (IF Head(data).room_id = roomId THEN <<HistoryEntry(type, Head(data))>> ELSE <<>>)
         \o FilterMap(Tail(data), roomId, type)

\* Array.prototype.sort((a, b) => b.timestamp - a.timestamp): stable, newest first
RECURSIVE SortNewestFirst(_)
SortNewestFirst(list) ==
    IF list = <<>> THEN <<>>
    ELSE LET rest == SortNewestFirst(Tail(list))
             before == {i \in 1..Len(rest) : rest[i].timestamp > Head(list).timestamp}
             k == Cardinality(before)
         IN  SubSeq(rest, 1, k) \o <<Head(list)>> \o SubSeq(rest, k + 1, Len(rest))

\* the history that lists the joins only
History_JoinsOnly(roomId, joinEvents, depositEvents) ==
    SortNewestFirst(FilterMap(joinEvents.data, roomId, "join"))

History(roomId, joinEvents, depositEvents) ==
    SortNewestFirst(FilterMap(joinEvents.data, roomId, "join")
                    \o FilterMap(depositEvents.data, roomId, "deposit"))

HistoryJson(code, history, message) ==
    [status |-> code, success |-> IF code = 200 THEN "true" ELSE "absent", digest |-> 0,
     error |-> message, history |-> history, count |-> Len(history)]

GetRoomHistory ==
    \E roomId \in ParticipantIds, queries \in QueryOutcomes :
        LET joinEvents == queryPlayerJoinedEvents(events, HISTORY_LIMIT)
            depositEvents == queryDepositMadeEvents(events, HISTORY_LIMIT)
            r == [ep |-> "room/:id/history", id |-> roomId, queries |-> queries,
                  joinEvents |-> joinEvents, depositEvents |-> depositEvents]
        IN
        /\ IF queries # "ok"
           THEN Answer(r, HistoryJson(500, <<>>, <<"fetch failed">>))
           ELSE Answer(r, HistoryJson(200, History(roomId, joinEvents, depositEvents),
                                      NoText))
        /\ UNCHANGED world

InitViews == InitParticipants

NextViews ==
    \/ GetRoomById
    \/ GetRoomParticipants
    \/ GetRoomHistory

SpecViews == InitViews /\ [][NextViews]_vars

\* the event logs hold, for room id, at most one PlayerJoined per player, and every
\* DepositMade of the room is of a player with a PlayerJoined of the room
WellFormedFor(id) ==
    LET joins == [data |-> events.join]
        deposits == [data |-> events.deposit]
    IN  /\ \A i, j \in OfRoom(joins, id) :
              joins.data[i].player = joins.data[j].player => i = j
        /\ \A i \in OfRoom(deposits, id) : deposits.data[i].player \in Joined(joins, id)

\* the three views of room id over the event logs as they are
ViewTotalDeposit(id) ==
    RoomTotalDeposit(id, queryPlayerJoinedEvents(events, PLAYER_JOINED),
                     queryDepositMadeEvents(events, DEPOSIT_MADE))

ViewParticipants(id) ==
    Participants(id, queryPlayerJoinedEvents(events, PLAYER_JOINED),
                 queryDepositMadeEvents(events, DEPOSIT_MADE))

ViewHistory(id) ==
    History(id, queryPlayerJoinedEvents(events, HISTORY_LIMIT),
            queryDepositMadeEvents(events, HISTORY_LIMIT))

SumField(list, field) ==
    SumOver(1..Len(list), [i \in 1..Len(list) |-> list[i][field]])

\* C28: the three views of a room agree.  For event logs within the page limits in
\* which each player has at most one PlayerJoined for the room and every DepositMade
\* of the room is of a player who joined it, the sum of the participants' totals
\* divided by 1,000,000 equals the room's totalDeposit, and the number of history
\* entries equals the sum of the participants' depositsCount: each answer of one of
\* the three endpoints agrees with what the two other views derive from the logs.
C28_ViewsAgree ==
    /\ (ParticipantsAnswered /\ WellFormedFor(req.id))
       => /\ DivideByScale(SumField(resp.participants, "amount")) = ViewTotalDeposit(req.id)
          /\ SumField(resp.participants, "depositsCount") = Len(ViewHistory(req.id))
    /\ (req.ep = "room/:id/history" /\ resp.status = 200 /\ WellFormedFor(req.id))
       => /\ resp.count = SumField(ViewParticipants(req.id), "depositsCount")
          /\ Len(resp.history) = resp.count
    /\ (RoomAnswered /\ req.queries = "ok" /\ WellFormedFor(req.id))
       => resp.room.totalDeposit
             = DivideByScale(SumField(ViewParticipants(req.id), "amount"))

C28_Witness ==
    /\ req.ep = "room/:id/history"
    /\ resp.status = 200
    /\ WellFormedFor(req.id)
    /\ resp.count = 3
    /\ Len(ViewParticipants(req.id)) = 1
    /\ resp.history[1].type = "deposit"
    /\ resp.history[3].type = "join"
    /\ ViewTotalDeposit(req.id) = [whole |-> 1, micro |-> 250000]

-----------------------------------------------------------------------------
(* The reward pool of GET /room/:id against the vault on the ledger *)

\* C29: in every answer of GET /room/:id the reward pool is not below the reward
\* balance the room's vault holds on the ledger (the accrued yield is never
\* negative, also when the start time is later than the current time); and when the
\* vault's principal is zero the reward pool equals that balance and no checkpoint
\* is written.
C29_RewardPoolNotBelowBalance ==
    (RoomAnswered /\ resp.room.vaultId # NullId)
    => /\ resp.room.rewardPool.yield >= 0
       /\ resp.room.rewardPool.units >= LedgerVaultRead.reward
       /\ LedgerVaultRead.principal = 0
          => /\ resp.room.rewardPool.units = LedgerVaultRead.reward
             /\ resp.room.rewardPool.yield = 0
             /\ NoCheckpointWritten

====
